---- MODULE Spec2Model ----
(***************************************************************************)
(* State-machine model of the qBittorrent remote client's main window:     *)
(* the poll / merge / filter pipeline of MainFrame (src/main.py), the list *)
(* control it renders into, and the session flag of QBittorrentClient      *)
(* (src/qbittorrent_client.py).                                            *)
(*                                                                         *)
(* Threads.  The UI thread runs event handlers one at a time; worker       *)
(* threads (login, fetch, tracker lookup) run concurrently and report back *)
(* with wx.CallAfter, modelled by the FIFO uiQueue.  Every handler and     *)
(* every worker step is one action.                                        *)
(***************************************************************************)
EXTENDS Integers, Sequences, FiniteSets, TLC

\* ------------------------------------------------------------------ bounds
\* Torrent identifiers the modelled server can hold: 1..NumTorrents.
NumTorrents == 2
\* Worker threads of each kind that may be alive at once.
MaxFetchWorkers == 2
MaxTrackerWorkers == 2
MaxLoginWorkers == 2
\* Callbacks posted with wx.CallAfter and not yet run.
MaxQueue == 2
\* User inputs and timer ticks in one run.
MaxUserEvents == 2
MaxRequests == 2
MaxBulkWorkers == 1
\* Items enqueued for opening in one run.
MaxOpenItems == 3
\* Profiles in the profile manager, and inputs of the user in it.
MaxProfiles == 3
MaxDialogEvents == 5

\* ------------------------------------------------------- program constants
MAX_TRACKER_LOOKUPS_PER_REFRESH == 40

FILTER_CHOICES ==
    <<"all", "downloading", "seeding", "completed",
      "paused", "resumed", "stalled", "errored">>

FilterChoiceSet == {FILTER_CHOICES[i] : i \in 1..Len(FILTER_CHOICES)}

\* ------------------------------------------------------------ input domains
\* Status filters the user picks in the modelled runs.
UserStatusFilters == {"all", "paused"}
\* Texts typed into the search box (sequences of characters).
SearchTexts == {<<>>, <<" ", "X">>, <<"y">>}

Min(a, b) == IF a <= b THEN a ELSE b

\* --------------------------------------------------------- text conversions
\* str.lower on the characters the model uses.
LowerChar(c) ==
    CASE c = "X" -> "x"
      [] c = "A" -> "a"
      [] c = "Y" -> "y"
      [] OTHER -> c

Lower(s) == [i \in 1..Len(s) |-> LowerChar(s[i])]

RECURSIVE StripLeft(_)
StripLeft(s) ==
    IF s # <<>> /\ Head(s) = " " THEN StripLeft(Tail(s)) ELSE s

RECURSIVE StripRight(_)
StripRight(s) ==
    IF s # <<>> /\ s[Len(s)] = " " THEN StripRight(SubSeq(s, 1, Len(s) - 1)) ELSE s

\* str.strip
Strip(s) == StripRight(StripLeft(s))

\* needle in hay (Python's substring test)
Contains(needle, hay) ==
    \E i \in 0..(Len(hay) - Len(needle)) :
        SubSeq(hay, i + 1, i + Len(needle)) = needle

\* host.strip().lower() of urlparse's hostname, on the hosts the model uses.
LowerHost(h) ==
    CASE h = "T1.Example" -> "t1.example"
      [] h = "t2.example " -> "t2.example"
      [] OTHER -> h

\* ------------------------------------------------------ the remote server
\* What torrents/info and torrents/trackers answer.  A server torrent is
\* [hash, name, state, trackers]; trackers is the list of tracker entries,
\* each [scheme, host] as urlparse splits its "url".
DhtEntry == [scheme |-> "", host |-> ""]
Tracker1 == [scheme |-> "udp", host |-> "T1.Example"]

NameOf(h) == IF h % 2 = 1 THEN <<"X", "a">> ELSE <<"y">>

\* Variant 1: everything downloading; even torrents have only the DHT
\* pseudo-entry.  Variant 2: odd torrents paused; every torrent on tracker 1.
ServerTorrent(h, v) ==
    [hash     |-> h,
     name     |-> NameOf(h),
     state    |-> IF v = 2 /\ h % 2 = 1 THEN "pausedDL" ELSE "downloading",
     trackers |-> IF v = 1 /\ h % 2 = 0 THEN <<DhtEntry>> ELSE <<DhtEntry, Tracker1>>]

\* The server's full list as answer variant v gives it.
ServerList(v) == [i \in 1..NumTorrents |-> ServerTorrent(i, v)]

ServerVariants == 1..2

\* The server's status filter of torrents/info?filter=...
StatusMatches(f, st) ==
    CASE f = "all" -> TRUE
      [] f = "paused" -> st = "pausedDL"
      [] f = "downloading" -> st = "downloading"
      [] OTHER -> FALSE

\* TorrentDetail.from_api: the fields of the payload the window uses.
FromApi(t) == [infohash_v1 |-> t.hash, name |-> t.name, state |-> t.state]

\* QBittorrentClient.get_torrents(filter_name) when the server holds srv.
GetTorrents(srv, filter_name) ==
    LET kept == SelectSeq(srv, LAMBDA t : StatusMatches(filter_name, t.state))
    IN  [i \in 1..Len(kept) |-> FromApi(kept[i])]

\* The host set the lookup worker derives from one trackers answer: entries
\* without a scheme are skipped, the host is stripped and lowered, empty
\* hosts are dropped.
HostsOf(trackers) ==
    {LowerHost(trackers[i].host) :
        i \in {j \in 1..Len(trackers) :
                  trackers[j].scheme # "" /\ LowerHost(trackers[j].host) # ""}}

Hashes(torrents) == [i \in 1..Len(torrents) |-> torrents[i].infohash_v1]

HashSet(torrents) == {torrents[i].infohash_v1 : i \in 1..Len(torrents)}

\* ------------------------------------------------------------------- state
VARIABLES
    auth,                   \* self.client._is_authenticated
    is_connecting,          \* self._is_connecting
    active_profile,         \* self.settings.active_profile
    default_filter,         \* self.settings.default_filter
    timer_running,          \* self._timer.IsRunning()
    connection_label,       \* self._connection_label's text
    connect_menu_enabled,   \* self._connect_menu_item.IsEnabled()
    disconnect_menu_enabled,\* self._disconnect_menu_item.IsEnabled()
    status,                 \* status bar: <<text, count>>
    filter_sel,             \* self._filter_choice.GetStringSelection()
    combo_hosts,            \* tracker hosts among self._filter_choice's items
    search_text,            \* self._search_ctrl.GetValue()
    debounce,               \* wx.CallLater timers of the search box running
    all_torrents,           \* self._all_torrents
    tracker_map,            \* self._tracker_map: hash -> set of hosts
    tracker_hosts_set,      \* self._tracker_hosts_set
    displayed_hashes,       \* self._displayed_hashes
    list_torrents,          \* self._list._torrents
    list_items,             \* the rows of self._list
    list_selected,          \* indices of the selected rows of self._list
    uiQueue,                \* callbacks posted with wx.CallAfter, FIFO
    fetchWorkers,           \* threads of refresh_torrents.worker
    trackerWorkers,         \* threads of _ensure_tracker_hosts.worker
    loginWorkers,           \* threads of _connect.worker
    events,                 \* history: user inputs and timer ticks so far
    lookups_done,           \* history: hash -> lookups answered since the
                            \* caches were last cleared (counted up to 2)
    failed_ids,             \* history: identifiers whose lookup failed and
                            \* that have had no entry since
    http_log,               \* history: the HTTP requests the client has sent
    outcome,                \* what the last call of a client method did
    bulkWorkers,            \* threads of _perform_on_selection.worker and
                            \* _delete_selected.worker
    settings,               \* self.settings, but for active_profile and
                            \* default_filter (variables of their own)
    file,                   \* the content of SETTINGS_FILE
    timer_interval,         \* milliseconds self._timer was started with
    pending_items,          \* self._pending_items
    enqueued,               \* history: the items appended to _pending_items
    handed,                 \* history: the items _add_torrent was called with
    dialog                  \* the ProfileManagerDialog and its controls

vars ==
    <<auth, is_connecting, active_profile, default_filter,
      timer_running, connection_label, connect_menu_enabled,
      disconnect_menu_enabled, status, filter_sel, combo_hosts, search_text,
      debounce, all_torrents, tracker_map, tracker_hosts_set,
      displayed_hashes, list_torrents, list_items, list_selected, uiQueue,
      fetchWorkers, trackerWorkers, loginWorkers, events, lookups_done,
      failed_ids, http_log, outcome, bulkWorkers, settings, file,
      timer_interval, pending_items, enqueued, handed, dialog>>

\* Groups used in UNCHANGED clauses.
sessionVars == <<auth, is_connecting, active_profile, loginWorkers>>
chromeVars == <<connection_label, connect_menu_enabled, disconnect_menu_enabled>>
filterVars == <<filter_sel, combo_hosts, default_filter>>
cacheVars == <<all_torrents, tracker_map, tracker_hosts_set>>
listVars == <<displayed_hashes, list_torrents, list_items, list_selected>>
clientVars == <<http_log, outcome>>
settingsVars == <<settings, file>>
openVars == <<pending_items, enqueued, handed>>
extVars == <<clientVars, bulkWorkers, settingsVars, timer_interval, openVars, dialog>>

\* --------------------------------------------------------------- callbacks
Callback(kind, msg, torrents, announce, hosts) ==
    [kind |-> kind, msg |-> msg, torrents |-> torrents,
     announce |-> announce, hosts |-> hosts]

CbSimple(kind, msg) == Callback(kind, msg, <<>>, FALSE, {})

CbLoaded(torrents, announce) == Callback("loaded", "", torrents, announce, {})

CbUpdateCombo(hosts) == Callback("update_combo", "", <<>>, FALSE, hosts)

RemoveAt(s, i) == SubSeq(s, 1, i - 1) \o SubSeq(s, i + 1, Len(s))

EmptyMap == [h \in {} |-> {}]

\* dict[h] = value
MapPut(map, h, value) ==
    [x \in DOMAIN map \cup {h} |-> IF x = h THEN value ELSE map[x]]

\* dict.get(h, set())
MapGet(map, h) == IF h \in DOMAIN map THEN map[h] ELSE {}

Status(text) == <<text, 0>>

\* ------------------------------------------------------------ list control
\* One row of the list control: the cells update_from fills in.
Row(t) == [name |-> t.name, state |-> t.state]

\* TorrentListCtrl.get_selected_hashes
GetSelectedHashes(lt, sel) == {lt[i].infohash_v1 : i \in sel}

\* hash_to_index of update_from: the last row holding each hash.
HashToIndex(torrents, h) ==
    CHOOSE i \in 1..Len(torrents) :
        /\ torrents[i].infohash_v1 = h
        /\ \A j \in (i + 1)..Len(torrents) : torrents[j].infohash_v1 # h

\* A selection kept by row position instead of by hash.
RestoredSelectionByIndex(lt, sel, torrents) == sel \cap (1..Len(torrents))

\* The selection update_from restores: rows of the hashes selected before.
RestoredSelection(lt, sel, torrents) ==
    {HashToIndex(torrents, h) : h \in GetSelectedHashes(lt, sel) \cap HashSet(torrents)}

\* TorrentListCtrl.update_from(torrents)
UpdateFrom(torrents) ==
    /\ list_torrents' = torrents
    /\ list_items' = [i \in 1..Len(torrents) |-> Row(torrents[i])]
    /\ list_selected' = RestoredSelection(list_torrents, list_selected, torrents)

\* wx.ListCtrl.DeleteAllItems: the rows go, self._list._torrents stays.
DeleteAllItems ==
    /\ list_items' = <<>>
    /\ list_selected' = {}
    /\ list_torrents' = list_torrents

\* The identifiers of the rows on screen.
RenderedHashes == [i \in 1..Len(list_items) |-> list_torrents[i].infohash_v1]

\* ---------------------------------------------------------------- filters
\* The candidate list of _apply_client_side_filters.
Candidate(all, selection, search, map) ==
    LET needle == Lower(Strip(search))
        byHost ==
            IF selection \notin FilterChoiceSet /\ selection # ""
            THEN SelectSeq(all, LAMBDA t : selection \in MapGet(map, t.infohash_v1))
            ELSE all
    IN  IF needle # <<>>
        THEN SelectSeq(byHost, LAMBDA t : Contains(needle, Lower(t.name)))
        ELSE byHost

\* A render that is never skipped.
SkipRenderNever(new_hashes, displayed) == FALSE

\* "Avoid heavy UI rebuild if nothing changed."
SkipRender(new_hashes, displayed) == new_hashes = displayed

\* MainFrame._apply_client_side_filters(announce), reading the given
\* selection, snapshot and tracker map.
ApplyClientSideFilters(announce, selection, all, map) ==
    LET candidate == Candidate(all, selection, search_text, map)
        new_hashes == Hashes(candidate)
    IN  /\ status' = IF announce THEN <<"Loaded", Len(candidate)>> ELSE status
        /\ IF SkipRender(new_hashes, displayed_hashes)
           THEN UNCHANGED listVars
           ELSE /\ displayed_hashes' = new_hashes
                /\ UpdateFrom(candidate)

\* ------------------------------------------------------------------ fetch
\* api_filter of refresh_torrents.
ApiFilter(selection) == IF selection \in FilterChoiceSet THEN selection ELSE "all"

FetchWorker(selection, announce) ==
    [api_filter |-> ApiFilter(selection), announce |-> announce]

\* MainFrame.refresh_torrents(announce) with the session flag authd and the
\* filter selection: the status text and the worker it starts.
RefreshTorrents(announce, authd, selection) ==
    /\ status' = IF announce
                 THEN (IF authd THEN Status("Refreshing torrents") ELSE Status("Not connected"))
                 ELSE status
    /\ fetchWorkers' = IF authd
                       THEN Append(fetchWorkers, FetchWorker(selection, announce))
                       ELSE fetchWorkers

CanStartFetch == Len(fetchWorkers) < MaxFetchWorkers
CanPost == Len(uiQueue) < MaxQueue

\* A snapshot patched with the new list instead of replaced by it.
NewSnapshotPatched(old, torrents) ==
    torrents \o SelectSeq(old, LAMBDA t : t.infohash_v1 \notin HashSet(torrents))

\* "self._all_torrents = torrents"
NewSnapshot(old, torrents) == torrents

\* missing_hashes of _ensure_tracker_hosts
MissingHashes(torrents, map) ==
    SelectSeq(Hashes(torrents), LAMBDA h : h \notin DOMAIN map)

\* A batch without the cap.
ToFetchUncapped(missing) == missing

\* to_fetch = missing_hashes[:MAX_TRACKER_LOOKUPS_PER_REFRESH]
ToFetch(missing) ==
    SubSeq(missing, 1, Min(Len(missing), MAX_TRACKER_LOOKUPS_PER_REFRESH))

\* MainFrame._ensure_tracker_hosts(torrents): the lookup worker it starts.
EnsureTrackerHosts(torrents) ==
    LET missing == MissingHashes(torrents, tracker_map)
    IN  IF missing = <<>>
        THEN trackerWorkers' = trackerWorkers
        ELSE trackerWorkers' =
                Append(trackerWorkers, [todo |-> ToFetch(missing), added |-> {}])

\* One more user input or timer tick, while the run's budget lasts.
UserEvent == events < MaxUserEvents /\ events' = events + 1

\* ---------------------------------------------------------- settings_store
\* ConnectionSettings: the fields of the dataclass and its defaults.
FieldNames == {"host", "username", "password", "verify_ssl", "timeout"}
DefaultConnection ==
    [host |-> "http://127.0.0.1:8080", username |-> "admin",
     password |-> "adminadmin", verify_ssl |-> TRUE, timeout |-> 15]
ConnectionTo(host) == [DefaultConnection EXCEPT !.host = host]

\* JSON values as json.load hands them over; Absent stands for a key that
\* is not in its object.
Absent == [t |-> "absent"]
JNull == [t |-> "null"]
JBool(b) == [t |-> "bool", b |-> b]
JInt(n) == [t |-> "int", n |-> n]
JStr(s) == [t |-> "str", s |-> s]
JList(items) == [t |-> "list", items |-> items]
\* An object read as keyword arguments: the keys it has and their values.
JObject(keys, val) == [t |-> "object", keys |-> keys, val |-> val]
\* The object under "profiles": its members in the order of the file.
JProfiles(members) == [t |-> "profiles", members |-> members]

\* Python's truth value, str() and int() of a JSON value.
Truthy(v) ==
    CASE v.t = "bool" -> v.b
      [] v.t = "int" -> v.n # 0
      [] v.t = "str" -> v.s # ""
      [] v.t = "list" -> v.items # <<>>
      [] v.t = "object" -> v.keys # {}
      [] v.t = "profiles" -> v.members # <<>>
      [] OTHER -> FALSE
PyStr(v) ==
    CASE v.t = "str" -> v.s
      [] v.t = "int" -> ToString(v.n)
      [] v.t = "bool" -> (IF v.b THEN "True" ELSE "False")
      [] v.t = "null" -> "None"
      [] OTHER -> "[...]"
IntRaises(v) ==
    CASE v.t \in {"int", "bool"} -> FALSE
      [] v.t = "str" -> ~\E n \in 0..9 : ToString(n) = v.s
      [] OTHER -> TRUE
PyInt(v) ==
    CASE v.t = "int" -> v.n
      [] v.t = "bool" -> (IF v.b THEN 1 ELSE 0)
      [] OTHER -> CHOOSE n \in 0..9 : ToString(n) = v.s

\* data.get(key, default) on the object of the file.
Get(data, key, default) == IF data[key] = Absent THEN default ELSE data[key]

\* ConnectionSettings(**v): it raises unless v is a mapping whose keys are
\* all fields of the dataclass; fields that are not given keep their default.
ConstructRaises(v) == v.t # "object" \/ ~(v.keys \subseteq FieldNames)
Construct(v) ==
    [f \in FieldNames |-> IF f \in v.keys THEN v.val[f] ELSE DefaultConnection[f]]
\* dataclasses.asdict(conn).
AsDict(conn) == JObject(FieldNames, conn)
EmptyDict == JObject({}, DefaultConnection)

\* AppSettings(...).
AppSettings(connection, refresh_seconds, auto_refresh, default_filter_, confirm_delete, configured, profiles, active_profile_) ==
    [connection |-> connection, refresh_seconds |-> refresh_seconds,
     auto_refresh |-> auto_refresh, default_filter |-> default_filter_,
     confirm_delete |-> confirm_delete, configured |-> configured,
     profiles |-> profiles, active_profile |-> active_profile_]
DefaultSettings ==
    AppSettings(DefaultConnection, 5, TRUE, "all", TRUE, FALSE,
                <<[name |-> "Default", conn |-> DefaultConnection]>>, "Default")

\* The names of an ordered dict of profiles, and the connection under a name.
Names(profiles) == {profiles[i].name : i \in 1..Len(profiles)}
ProfileOf(profiles, name) ==
    (CHOOSE i \in 1..Len(profiles) : profiles[i].name = name)

\* The contents of SETTINGS_FILE: no file, text that is not JSON, or JSON.
NoFile == [kind |-> "absent"]
NotJson == [kind |-> "invalid"]
JsonFile(data) == [kind |-> "json", data |-> data]
\* The document is an object (with the keys of the settings, each of them
\* possibly Absent) and not a list, a number or null.
IsDict(data) ==
    DOMAIN data = {"connection", "refresh_seconds", "auto_refresh", "default_filter",
                   "confirm_delete", "profiles", "active_profile"}

\* A load that finds no profile in any file.
LoadedProfilesNone(data) == <<>>

\* load_settings, lines 43-50: the profiles that can be built from the file.
LoadedProfiles(data) ==
    LET profiles_data == IF Truthy(data["profiles"]) THEN data["profiles"]
                         ELSE JProfiles(<<>>)
        members == IF profiles_data.t = "profiles" THEN profiles_data.members
                   ELSE <<>>
        ConnDict(m) == IF Truthy(m.value) THEN m.value ELSE EmptyDict
        usable == SelectSeq(members, LAMBDA m : ~ConstructRaises(ConnDict(m)))
    IN  [i \in 1..Len(usable) |->
            [name |-> usable[i].name, conn |-> Construct(ConnDict(usable[i]))]]

\* load_settings, lines 58-61: the active profile among loaded profiles.
LoadedActiveFirst(data, profiles) == profiles[1].name
LoadedActive(data, profiles) ==
    LET saved == Get(data, "active_profile", JNull)
        name == IF Truthy(saved) THEN PyStr(saved) ELSE "Default"
    IN  IF name \in Names(profiles) THEN name ELSE profiles[1].name

\* load_settings.
LoadSettings(f) ==
    IF f.kind # "json" \/ ~IsDict(f.data)
    THEN DefaultSettings
    ELSE LET data == f.data
             loaded == LoadedProfiles(data)
             legacy == Get(data, "connection", EmptyDict)
             refresh == Get(data, "refresh_seconds", JInt(5))
         IN  IF \/ loaded = <<>> /\ ConstructRaises(legacy)
                \/ IntRaises(refresh)
             THEN DefaultSettings
             ELSE LET profiles == IF loaded = <<>>
                                  THEN <<[name |-> "Default", conn |-> Construct(legacy)]>>
                                  ELSE loaded
                      active == IF loaded = <<>> THEN "Default"
                                ELSE LoadedActive(data, profiles)
                  IN  AppSettings(profiles[ProfileOf(profiles, active)].conn,
                                  PyInt(refresh),
                                  Truthy(Get(data, "auto_refresh", JBool(TRUE))),
                                  PyStr(Get(data, "default_filter", JStr("all"))),
                                  Truthy(Get(data, "confirm_delete", JBool(TRUE))),
                                  TRUE, profiles, active)

\* save_settings: the document json.dump writes.
Payload(s) ==
    JsonFile([connection |-> AsDict(s.connection),
              refresh_seconds |-> JInt(s.refresh_seconds),
              auto_refresh |-> JBool(s.auto_refresh),
              default_filter |-> JStr(s.default_filter),
              confirm_delete |-> JBool(s.confirm_delete),
              profiles |-> JProfiles([i \in 1..Len(s.profiles) |->
                              [name |-> s.profiles[i].name,
                               value |-> AsDict(s.profiles[i].conn)]]),
              active_profile |-> JStr(s.active_profile)])

\* self.settings as one AppSettings value, and its installation.
CurrentSettings ==
    AppSettings(settings.connection, settings.refresh_seconds,
                settings.auto_refresh, default_filter, settings.confirm_delete,
                settings.configured, settings.profiles, active_profile)
Kept(s) ==
    [connection |-> s.connection, refresh_seconds |-> s.refresh_seconds,
     auto_refresh |-> s.auto_refresh, confirm_delete |-> s.confirm_delete,
     configured |-> s.configured, profiles |-> s.profiles]

\* save_settings(self.settings) once the handler has made s of the settings
\* (it sets active_profile and default_filter itself): the file is written
\* and configured set.
SaveSettings(s) ==
    /\ file' = Payload(s)
    /\ settings' = Kept([s EXCEPT !.configured = TRUE])

\* ConnectionDialog.get_settings(original) with the host the user typed; the
\* other fields are left as the dialog showed them.
TypedHosts == {"", "http://nas:8080 "}
StripHost(h) == IF h = "http://nas:8080 " THEN "http://nas:8080" ELSE h
GetSettings(original, host) ==
    [original EXCEPT !.host = IF StripHost(host) = "" THEN original.host
                              ELSE StripHost(host)]

\* MainFrame._configure_timer: the interval in milliseconds.
TimerIntervalUnclamped(refresh_seconds) == refresh_seconds * 1000
TimerInterval(refresh_seconds) ==
    (IF refresh_seconds >= 3 THEN refresh_seconds ELSE 3) * 1000

\* -------------------------------------------------------------- open items
\* normalize_open_item(raw) on the items of the modelled runs: surrounding
\* blanks go, a file:// URL becomes its path, an empty item is None ("").
NormalizeOpenItem(raw) ==
    CASE raw = "  " -> ""
      [] raw = " magnet:?xt=urn:btih:1 " -> "magnet:?xt=urn:btih:1"
      [] raw = "file:///t/a.torrent" -> "/t/a.torrent"
      [] OTHER -> raw

\* The list _enqueue_open_items appends: the normalised items that are not
\* empty.
Normalized(items) ==
    SelectSeq([i \in 1..Len(items) |-> NormalizeOpenItem(items[i])],
              LAMBDA item : item # "")

\* item.lower().startswith("magnet:?") and Path(item).exists() of
\* _handle_incoming_item; /t/gone.torrent is not on the disk.
IsMagnetLink(item) == item = "magnet:?xt=urn:btih:1"
PathExists(item) == item \in {"/t/a.torrent", "/t/b.torrent"}

\* The positional arguments of the command line, and what the open dialog
\* (wx.FD_FILE_MUST_EXIST) returns.
Argvs ==
    {<<>>, <<"  ">>, <<" magnet:?xt=urn:btih:1 ">>,
     <<"/t/gone.torrent", "file:///t/a.torrent">>}
DialogPaths == {<<"/t/a.torrent">>, <<"/t/b.torrent", "/t/a.torrent">>}

\* -------------------------------------------------------- profile manager
\* ProfileManagerDialog: self._profiles as the ordered dict it is (a sequence
\* of name and connection), self._selected_name, and the values its controls
\* show. The dialog handlers are functions of the dialog, so that a handler
\* which calls another one, or sets a control whose event runs another one,
\* is their composition.
\*
\* str.strip on the texts typed into the dialog.
StripText(s) ==
    CASE s = " Home " -> "Home"
      [] s = " " -> ""
      [] s = " bob " -> "bob"
      [] s = "http://nas:8080 " -> "http://nas:8080"
      [] OTHER -> s

\* The texts typed into the name field, and the values given to the others.
TypedNames == {"", " ", " Home ", "Seedbox", "Default"}
TypedFields ==
    {[host |-> "", username |-> " bob ", password |-> "hunter2",
      verify_ssl |-> FALSE, timeout |-> 300],
     [host |-> "http://nas:8080 ", username |-> "", password |-> "",
      verify_ssl |-> TRUE, timeout |-> 5]}

\* wx.SpinCtrl(min=5, max=300).SetValue(v): the value the control then has.
SpinMin == 5
SpinMax == 300
SpinValue(v) == IF v < SpinMin THEN SpinMin ELSE IF v > SpinMax THEN SpinMax ELSE v

\* No dialog is open.
NoDialog ==
    [open |-> FALSE, profiles |-> <<>>, selected_name |-> "", name |-> "",
     host |-> "", username |-> "", password |-> "", verify_ssl |-> FALSE,
     timeout |-> 15]

\* self._profiles[name], as an index and as the connection.
SelectedIndex(d) == ProfileOf(d.profiles, d.selected_name)
SelectedConn(d) == d.profiles[SelectedIndex(d)].conn

\* _on_field_change: the values of the controls are written to the selected
\* profile.
FieldChange(d) ==
    IF d.selected_name \notin Names(d.profiles)
    THEN d
    ELSE [d EXCEPT !.profiles[SelectedIndex(d)].conn =
            [host |-> IF StripText(d.host) = "" THEN @.host ELSE StripText(d.host),
             username |-> StripText(d.username),
             password |-> d.password,
             verify_ssl |-> d.verify_ssl,
             timeout |-> d.timeout]]

\* _load_selected_into_fields with the row of name selected in the list.
\* TextCtrl.SetValue sends EVT_TEXT, so each text control that is set runs
\* its handler before the next one is set: _on_name_change returns at once
\* (the name shown is the selected name; names in the dialog carry no outer
\* blanks), _on_field_change writes all controls to the profile. CheckBox.
\* SetValue and SpinCtrl.SetValue send no event.
LoadSelectedIntoFields(d, name) ==
    LET d1 == [d EXCEPT !.selected_name = name, !.name = name]
        d2 == FieldChange([d1 EXCEPT !.host = SelectedConn(d1).host])
        d3 == FieldChange([d2 EXCEPT !.username = SelectedConn(d2).username])
        d4 == FieldChange([d3 EXCEPT !.password = SelectedConn(d3).password])
        d5 == [d4 EXCEPT !.verify_ssl = SelectedConn(d4).verify_ssl]
    IN  [d5 EXCEPT !.timeout =
            SpinValue(IF SelectedConn(d5).timeout < 5 THEN 5 ELSE SelectedConn(d5).timeout)]

\* _refresh_list(select): the rows are rebuilt, the row of select (or the
\* first one) is selected, which runs _on_list_select, and the fields are
\* loaded once more.
RefreshList(d, select) ==
    LET name == IF select \in Names(d.profiles) THEN select ELSE d.profiles[1].name
    IN  LoadSelectedIntoFields(LoadSelectedIntoFields(d, name), name)

\* ProfileManagerDialog(parent, profiles, active).
ProfileManagerDialog(profiles, active) ==
    LET cloned == IF profiles = <<>>
                  THEN <<[name |-> "Default", conn |-> DefaultConnection]>>
                  ELSE profiles
        selected == IF active \in Names(cloned) THEN active ELSE cloned[1].name
    IN  RefreshList([NoDialog EXCEPT !.open = TRUE, !.profiles = cloned,
                                     !.selected_name = selected], selected)

\* _unique_name(base): base, then base 2, base 3, ... until the name is free.
UniqueName(base, existing) ==
    LET Candidate_(k) == IF k = 1 THEN base ELSE base \o " " \o ToString(k)
        n == CHOOSE k \in 1..(Cardinality(existing) + 1) :
                /\ Candidate_(k) \notin existing
                /\ \A j \in 1..(k - 1) : Candidate_(j) \in existing
    IN  Candidate_(n)

\* _on_add: a copy of the selected profile under a free name, then selected.
Add(d) ==
    LET name == UniqueName("Profile", Names(d.profiles))
        current == IF d.selected_name \in Names(d.profiles) THEN SelectedConn(d)
                   ELSE DefaultConnection
    IN  RefreshList([d EXCEPT !.profiles = Append(@, [name |-> name, conn |-> current])],
                    name)

\* _on_remove, line 377: the last profile stays.
RemoveRefused(profiles) == Len(profiles) <= 1

\* _on_remove.
Remove(d) ==
    IF RemoveRefused(d.profiles)
    THEN d
    ELSE LET kept == IF d.selected_name \in Names(d.profiles)
                     THEN RemoveAt(d.profiles, SelectedIndex(d))
                     ELSE d.profiles
         IN  RefreshList([d EXCEPT !.profiles = kept], kept[1].name)

\* _on_name_change, line 395: the name is another profile's.
NameTakenNever(new_name, profiles) == FALSE
NameTaken(new_name, profiles) == new_name \in Names(profiles)

\* _on_name_change with the text of the name field: the profile is re-keyed,
\* which puts it last in the dict.
NameChange(d) ==
    LET old_name == d.selected_name
        new_name == StripText(d.name)
    IN  IF old_name = "" \/ new_name = "" \/ new_name = old_name
        THEN d
        ELSE IF NameTaken(new_name, d.profiles)
        THEN [d EXCEPT !.name = old_name]
        ELSE LET i == ProfileOf(d.profiles, old_name)
                 rekeyed == Append(RemoveAt(d.profiles, i),
                                   [name |-> new_name, conn |-> d.profiles[i].conn])
             IN  RefreshList([d EXCEPT !.profiles = rekeyed,
                                       !.selected_name = new_name], new_name)

\* _move_selected, line 435: the index the selected profile moves to.
NewIndex(idx, delta, n) ==
    LET moved == idx + delta
        capped == IF moved < n THEN moved ELSE n
    IN  IF capped > 1 THEN capped ELSE 1

\* names.pop(idx); names.insert(new_idx, name), on the entries.
Reordered(profiles, idx, new_idx) ==
    LET rest == RemoveAt(profiles, idx)
    IN  SubSeq(rest, 1, new_idx - 1) \o <<profiles[idx]>>
            \o SubSeq(rest, new_idx, Len(rest))

\* _move_selected(delta).
Move(d, delta) ==
    IF d.profiles = <<>> \/ d.selected_name \notin Names(d.profiles)
    THEN d
    ELSE LET idx == SelectedIndex(d)
             new_idx == NewIndex(idx, delta, Len(d.profiles))
         IN  IF new_idx = idx
             THEN d
             ELSE RefreshList([d EXCEPT !.profiles = Reordered(@, idx, new_idx)],
                              d.selected_name)

\* -------------------------------------------------------------------- Init
\* MainFrame.__init__: settings loaded, nothing fetched, the timer already
\* configured, and _auto_connect_or_prompt posted with wx.CallAfter.
InitFrom(files, argvs) ==
    /\ file \in files
    /\ settings = Kept(LoadSettings(file))
    /\ active_profile = LoadSettings(file).active_profile
    /\ default_filter = LoadSettings(file).default_filter
    /\ auth = FALSE
    /\ is_connecting = FALSE
    /\ timer_running = settings.auto_refresh
    /\ timer_interval = IF settings.auto_refresh
                        THEN TimerInterval(settings.refresh_seconds) ELSE 0
    /\ connection_label = "Disconnected"
    /\ connect_menu_enabled = TRUE
    /\ disconnect_menu_enabled = FALSE
    /\ status = Status("Ready")
    /\ filter_sel = IF default_filter \in FilterChoiceSet THEN default_filter
                    ELSE FILTER_CHOICES[1]
    /\ combo_hosts = {}
    /\ search_text = <<>>
    /\ debounce = 0
    /\ all_torrents = <<>>
    /\ tracker_map = EmptyMap
    /\ tracker_hosts_set = {}
    /\ displayed_hashes = <<>>
    /\ list_torrents = <<>>
    /\ list_items = <<>>
    /\ list_selected = {}
    /\ uiQueue = <<CbSimple("auto_connect", "")>>
    /\ fetchWorkers = <<>>
    /\ trackerWorkers = <<>>
    /\ loginWorkers = <<>>
    /\ events = 0
    /\ lookups_done = [h \in 1..NumTorrents |-> 0]
    /\ failed_ids = {}
    /\ http_log = <<>>
    /\ outcome = [call |-> "", hashes |-> <<>>, sent |-> FALSE,
                  resp |-> [status |-> 0, body |-> <<>>],
                  raised |-> [class |-> "", message |-> "", status_code |-> 0,
                              text |-> <<>>]]
    /\ bulkWorkers = <<>>
    /\ \E argv \in argvs : pending_items = Normalized(argv)
    /\ enqueued = pending_items
    /\ handed = <<>>
    /\ dialog = NoDialog

\* The settings file at the start: none, or one saved by an earlier run with
\* two profiles and either default filter.
SavedSettings(default_filter_) ==
    AppSettings(DefaultConnection, 5, TRUE, default_filter_, TRUE, TRUE,
                <<[name |-> "Default", conn |-> DefaultConnection],
                  [name |-> "Seedbox", conn |-> ConnectionTo("http://seedbox:8080")]>>,
                "Default")
StartFiles == {NoFile} \cup {Payload(SavedSettings(f)) : f \in UserStatusFilters}

Init == InitFrom(StartFiles, {<<>>})

\* ------------------------------------------------------------- connecting
\* MainFrame._connect(settings).
Connect(conn) ==
    IF is_connecting
    THEN UNCHANGED <<is_connecting, status, connection_label, loginWorkers>>
    ELSE /\ is_connecting' = TRUE
         /\ status' = Status("Connecting")
         /\ connection_label' = "Connecting"
         /\ loginWorkers' = Append(loginWorkers, [settings |-> conn])

\* MainFrame._prompt_connect: the dialog is shown unless a connection is being
\* made or exists; ok says whether the user confirmed it, host what the host
\* field then held.
PromptConnect(ok, host) ==
    IF is_connecting \/ auth \/ ~ok
    THEN UNCHANGED <<is_connecting, status, connection_label, loginWorkers>>
    ELSE Connect(GetSettings(settings.connection, host))

\* MainFrame._auto_connect_or_prompt, run from the queue after construction:
\* configured settings connect at once, otherwise the dialog is shown.
AutoConnectOrPromptAt(hosts) ==
    /\ uiQueue # <<>> /\ Head(uiQueue).kind = "auto_connect"
    /\ Len(loginWorkers) < MaxLoginWorkers
    /\ IF settings.configured /\ settings.connection.host # ""
       THEN Connect(settings.connection)
       ELSE \E ok \in BOOLEAN, host \in hosts : PromptConnect(ok, host)
    /\ uiQueue' = Tail(uiQueue)
    /\ UNCHANGED <<auth, active_profile, default_filter, timer_running,
                   connect_menu_enabled, disconnect_menu_enabled, filter_sel,
                   combo_hosts, search_text, debounce, cacheVars, listVars,
                   fetchWorkers, trackerWorkers, failed_ids>>
    /\ UNCHANGED <<events, lookups_done>>
    /\ UNCHANGED extVars

\* The user leaves the host field of the connection dialog as it is.
AutoConnectOrPrompt == AutoConnectOrPromptAt({""})

\* MainFrame._on_connect_menu (File > Connect, when the item is enabled).
OnConnectMenuAt(hosts) ==
    /\ connect_menu_enabled
    /\ Len(loginWorkers) < MaxLoginWorkers
    /\ IF auth
       THEN /\ status' = Status("Already connected")
            /\ UNCHANGED <<is_connecting, connection_label, loginWorkers>>
       ELSE \E ok \in BOOLEAN, host \in hosts : PromptConnect(ok, host)
    /\ UserEvent
    /\ UNCHANGED <<auth, active_profile, default_filter, timer_running,
                   connect_menu_enabled, disconnect_menu_enabled, filter_sel,
                   combo_hosts, search_text, debounce, cacheVars, listVars,
                   uiQueue, fetchWorkers, trackerWorkers, failed_ids>>
    /\ UNCHANGED <<lookups_done>>
    /\ UNCHANGED extVars

OnConnectMenu == OnConnectMenuAt({""})

\* _connect.worker, login accepted: _apply_connection is posted and the
\* worker itself resets _is_connecting.
LoginSucceed ==
    /\ CanPost
    /\ \E i \in 1..Len(loginWorkers) :
          /\ uiQueue' = Append(uiQueue, CbSimple("apply_connection", loginWorkers[i].settings))
          /\ loginWorkers' = RemoveAt(loginWorkers, i)
    /\ is_connecting' = FALSE
    /\ UNCHANGED <<auth, active_profile, default_filter, timer_running,
                   chromeVars, status, filter_sel, combo_hosts, search_text,
                   debounce, cacheVars, listVars, fetchWorkers, trackerWorkers,
                   failed_ids>>
    /\ UNCHANGED <<events, lookups_done>>
    /\ UNCHANGED extVars

\* _connect.worker, login raised: _show_error, _set_status and SetLabel are
\* posted one after the other (one queue entry here, run in that order).
LoginFail ==
    /\ CanPost
    /\ \E i \in 1..Len(loginWorkers) :
          loginWorkers' = RemoveAt(loginWorkers, i)
    /\ uiQueue' = Append(uiQueue, CbSimple("connect_failed", "Could not connect"))
    /\ is_connecting' = FALSE
    /\ UNCHANGED <<auth, active_profile, default_filter, timer_running,
                   chromeVars, status, filter_sel, combo_hosts, search_text,
                   debounce, cacheVars, listVars, fetchWorkers, trackerWorkers,
                   failed_ids>>
    /\ UNCHANGED <<events, lookups_done>>
    /\ UNCHANGED extVars

\* The three callbacks of a failed login.
ConnectFailed ==
    /\ uiQueue # <<>> /\ Head(uiQueue).kind = "connect_failed"
    /\ uiQueue' = Tail(uiQueue)
    /\ status' = Status("Connection failed")
    /\ connection_label' = "Disconnected"
    /\ UNCHANGED <<sessionVars, default_filter, timer_running,
                   connect_menu_enabled, disconnect_menu_enabled, filter_sel,
                   combo_hosts, search_text, debounce, cacheVars, listVars,
                   fetchWorkers, trackerWorkers, failed_ids>>
    /\ UNCHANGED <<events, lookups_done>>
    /\ UNCHANGED extVars

\* The thread of _perform_on_selection.worker or _delete_selected.worker.
\* The first calls a method bound to the client of the time of the command:
\* once self.client has been replaced (stale), flag is that old client's
\* session flag.  The second reads self.client when it runs.
BulkWorker(action, hashes, bound) ==
    [action |-> action, hashes |-> hashes, bound |-> bound,
     stale |-> FALSE, flag |-> FALSE]

\* self.client is replaced: the workers bound to the old client keep it,
\* with its flag.
Detached(workers, flag) ==
    [i \in 1..Len(workers) |->
        IF workers[i].bound /\ ~workers[i].stale
        THEN [workers[i] EXCEPT !.stale = TRUE, !.flag = flag]
        ELSE workers[i]]

\* MainFrame._configure_timer.
ConfigureTimer(s) ==
    /\ timer_running' = s.auto_refresh
    /\ timer_interval' = IF s.auto_refresh THEN TimerInterval(s.refresh_seconds)
                         ELSE timer_interval

\* The items of pending that _handle_incoming_item passes to _add_torrent,
\* and those it refuses with "file not found".
Accepted(pending) ==
    SelectSeq(pending, LAMBDA item : IsMagnetLink(item) \/ PathExists(item))
Refused(pending) ==
    SelectSeq(pending, LAMBDA item : ~(IsMagnetLink(item) \/ PathExists(item)))

\* What _process_pending_items leaves in self._pending_items once it has
\* copied the list: "self._pending_items.clear()".
RemainingKept(pending) == pending
Remaining(pending) == <<>>

\* MainFrame._process_pending_items with the session flag authd, the pending
\* list and the bulk workers alive: every accepted item gets its
\* _add_torrent.worker thread, which reads self.client when it runs.
ProcessPendingItems(authd, pending, workers) ==
    IF ~authd \/ pending = <<>>
    THEN /\ pending_items' = pending
         /\ handed' = handed
         /\ bulkWorkers' = workers
    ELSE /\ pending_items' = Remaining(pending)
         /\ handed' = handed \o Accepted(pending)
         /\ bulkWorkers' =
                workers \o [i \in 1..Len(Accepted(pending)) |-> BulkWorker("add", {}, FALSE)]

\* MainFrame._apply_connection(client, settings): the logged-in client is
\* installed, its connection stored and saved, the timer configured, one
\* fetch started and the pending items processed.
ApplyConnection ==
    /\ uiQueue # <<>> /\ Head(uiQueue).kind = "apply_connection"
    /\ CanStartFetch
    /\ uiQueue' = Tail(uiQueue)
    /\ auth' = TRUE
    /\ SaveSettings([CurrentSettings EXCEPT !.connection = Head(uiQueue).msg])
    /\ connect_menu_enabled' = FALSE
    /\ disconnect_menu_enabled' = TRUE
    /\ connection_label' = "Connected"
    /\ ConfigureTimer(settings)
    /\ IF Refused(pending_items) = <<>>
       THEN RefreshTorrents(TRUE, TRUE, filter_sel)
       ELSE /\ fetchWorkers' = Append(fetchWorkers, FetchWorker(filter_sel, TRUE))
            /\ status' = Status("Cannot open")
    /\ ProcessPendingItems(TRUE, pending_items, Detached(bulkWorkers, auth))
    /\ UNCHANGED <<is_connecting, active_profile, loginWorkers,
                   filterVars, search_text, debounce, cacheVars, listVars,
                   trackerWorkers, failed_ids>>
    /\ UNCHANGED <<events, lookups_done>>
    /\ UNCHANGED <<clientVars, enqueued, dialog>>

\* MainFrame._disconnect (File > Disconnect, when the item is enabled).
Disconnect ==
    /\ disconnect_menu_enabled
    /\ auth' = FALSE
    /\ connection_label' = "Disconnected"
    /\ DeleteAllItems
    /\ status' = Status("Disconnected")
    /\ connect_menu_enabled' = TRUE
    /\ disconnect_menu_enabled' = FALSE
    /\ UserEvent
    /\ UNCHANGED <<is_connecting, active_profile, loginWorkers,
                   timer_running, filterVars, search_text, debounce, cacheVars,
                   displayed_hashes, uiQueue, fetchWorkers, trackerWorkers,
                   failed_ids>>
    /\ UNCHANGED <<lookups_done>>
    /\ UNCHANGED extVars

\* "Clear UI and caches" of _switch_profile.
ClearCaches ==
    /\ DeleteAllItems
    /\ tracker_map' = EmptyMap
    /\ tracker_hosts_set' = {}
    /\ displayed_hashes' = <<>>
    /\ all_torrents' = <<>>

\* MainFrame._switch_profile(profile_name), from the profile selector or the
\* profile manager: the session is dropped, the caches cleared, a fresh
\* client built and a login started.
SwitchProfile ==
    /\ Len(loginWorkers) < MaxLoginWorkers
    /\ \E profile_name \in Names(settings.profiles) :
          LET new_conn == settings.profiles[ProfileOf(settings.profiles, profile_name)].conn
          IN  /\ active_profile' = profile_name
              /\ SaveSettings([CurrentSettings EXCEPT !.active_profile = profile_name,
                                                      !.connection = new_conn])
              /\ loginWorkers' = Append(loginWorkers, [settings |-> new_conn])
    /\ timer_running' = FALSE
    /\ auth' = FALSE
    /\ ClearCaches
    /\ is_connecting' = TRUE
    /\ status' = Status("Connecting")
    /\ connection_label' = "Connecting"
    /\ failed_ids' = {}
    /\ lookups_done' = [h \in 1..NumTorrents |-> 0]
    /\ UserEvent
    /\ UNCHANGED <<connect_menu_enabled, disconnect_menu_enabled,
                   filterVars, search_text, debounce, uiQueue, fetchWorkers,
                   trackerWorkers>>
    /\ bulkWorkers' = Detached(bulkWorkers, FALSE)
    /\ UNCHANGED <<clientVars, timer_interval, openVars, dialog>>

\* ------------------------------------------------------- filter and search
\* The items of self._filter_choice the user picks among.
ComboChoices == UserStatusFilters \cup combo_hosts

\* MainFrame._on_filter_changed: a status filter is saved as the default and
\* fetched from the server; a tracker host re-filters the cached snapshot.
OnFilterChanged ==
    /\ \E selection \in ComboChoices :
          /\ filter_sel' = selection
          /\ IF selection \in FilterChoiceSet
             THEN /\ CanStartFetch \/ ~auth
                  /\ default_filter' = selection
                  /\ SaveSettings([CurrentSettings EXCEPT !.default_filter = selection])
                  /\ RefreshTorrents(TRUE, auth, selection)
                  /\ UNCHANGED listVars
             ELSE /\ ApplyClientSideFilters(TRUE, selection, all_torrents, tracker_map)
                  /\ UNCHANGED <<default_filter, fetchWorkers, settingsVars>>
    /\ UserEvent
    /\ UNCHANGED <<sessionVars, timer_running, chromeVars, combo_hosts,
                   search_text, debounce, cacheVars, uiQueue, trackerWorkers,
                   failed_ids>>
    /\ UNCHANGED <<lookups_done>>
    /\ UNCHANGED <<clientVars, bulkWorkers, timer_interval, openVars, dialog>>

\* The timers left running when none is stopped.
StopNothing(running) == running

\* "self._search_debounce.Stop()": the timer started by the change before, if
\* it has not fired yet, runs no longer.
StopPending(running) == IF running > 0 THEN running - 1 ELSE 0

\* MainFrame._on_search_changed: the pending wx.CallLater is stopped and a
\* new one started.
OnSearchChanged ==
    /\ \E text \in SearchTexts \ {search_text} : search_text' = text
    /\ debounce' = StopPending(debounce) + 1
    /\ UserEvent
    /\ UNCHANGED <<sessionVars, default_filter, timer_running,
                   chromeVars, status, filter_sel, combo_hosts, cacheVars,
                   listVars, uiQueue, fetchWorkers, trackerWorkers, failed_ids>>
    /\ UNCHANGED <<lookups_done>>
    /\ UNCHANGED extVars

\* The wx.CallLater of the search box fires: _apply_client_side_filters().
DebounceFire ==
    /\ debounce > 0
    /\ debounce' = debounce - 1
    /\ ApplyClientSideFilters(FALSE, filter_sel, all_torrents, tracker_map)
    /\ UNCHANGED <<sessionVars, default_filter, timer_running,
                   chromeVars, filter_sel, combo_hosts, search_text, cacheVars,
                   uiQueue, fetchWorkers, trackerWorkers, failed_ids>>
    /\ UNCHANGED <<events, lookups_done>>
    /\ UNCHANGED extVars

\* The user selects or deselects a row of the list.
SelectRow ==
    /\ \E i \in 1..Len(list_items) :
          list_selected' = IF i \in list_selected
                           THEN list_selected \ {i}
                           ELSE list_selected \cup {i}
    /\ UserEvent
    /\ UNCHANGED <<sessionVars, default_filter, timer_running,
                   chromeVars, status, filter_sel, combo_hosts, search_text,
                   debounce, cacheVars, displayed_hashes, list_torrents,
                   list_items, uiQueue, fetchWorkers, trackerWorkers, failed_ids>>
    /\ UNCHANGED <<lookups_done>>
    /\ UNCHANGED extVars

\* ------------------------------------------------------------ fetch cycle
\* The Refresh button: refresh_torrents().
RefreshButton ==
    /\ CanStartFetch
    /\ RefreshTorrents(TRUE, auth, filter_sel)
    /\ UserEvent
    /\ UNCHANGED <<sessionVars, default_filter, timer_running,
                   chromeVars, filter_sel, combo_hosts, search_text, debounce,
                   cacheVars, listVars, uiQueue, trackerWorkers, failed_ids>>
    /\ UNCHANGED <<lookups_done>>
    /\ UNCHANGED extVars

\* EVT_TIMER: refresh_torrents(False).  Without a session the handler
\* returns having changed nothing, so only ticks with a session are steps.
TimerTick ==
    /\ timer_running
    /\ auth
    /\ CanStartFetch
    /\ RefreshTorrents(FALSE, auth, filter_sel)
    /\ UserEvent
    /\ UNCHANGED <<sessionVars, default_filter, timer_running,
                   chromeVars, filter_sel, combo_hosts, search_text, debounce,
                   cacheVars, listVars, uiQueue, trackerWorkers, failed_ids>>
    /\ UNCHANGED <<lookups_done>>
    /\ UNCHANGED extVars

\* refresh_torrents.worker number i, get_torrents answered with torrents:
\* _after_torrents_loaded is posted with the list the server returned.
FetchAnswered(i, torrents) ==
    /\ CanPost
    /\ uiQueue' = Append(uiQueue, CbLoaded(torrents, fetchWorkers[i].announce))
    /\ fetchWorkers' = RemoveAt(fetchWorkers, i)
    /\ UNCHANGED <<sessionVars, default_filter, timer_running,
                   chromeVars, status, filter_sel, combo_hosts, search_text,
                   debounce, cacheVars, listVars, trackerWorkers, failed_ids>>
    /\ UNCHANGED <<events, lookups_done>>
    /\ UNCHANGED extVars

\* A fetch worker is answered by the server in one of its variants.
FetchSucceed ==
    \E i \in 1..Len(fetchWorkers), v \in ServerVariants :
        FetchAnswered(i, GetTorrents(ServerList(v), fetchWorkers[i].api_filter))

\* QBittorrentClient._request on a failing response: status 403 clears the
\* session flag, every failure raises.
RequestFailed(forbidden) == auth' = IF forbidden THEN FALSE ELSE auth

\* refresh_torrents.worker, get_torrents raised: _show_error is posted.
FetchFail ==
    /\ CanPost
    /\ \E i \in 1..Len(fetchWorkers) : fetchWorkers' = RemoveAt(fetchWorkers, i)
    /\ \E forbidden \in BOOLEAN : RequestFailed(forbidden)
    /\ uiQueue' = Append(uiQueue, CbSimple("show_error", "Failed to refresh"))
    /\ UNCHANGED <<is_connecting, active_profile, loginWorkers,
                   default_filter, timer_running, chromeVars, status, filter_sel,
                   combo_hosts, search_text, debounce, cacheVars, listVars,
                   trackerWorkers, failed_ids>>
    /\ UNCHANGED <<events, lookups_done>>
    /\ UNCHANGED extVars

\* An error handler that empties the list.
ErrorClearsList == displayed_hashes' = <<>> /\ UpdateFrom(<<>>)

\* What _show_error does to the list: nothing.
ErrorKeepsList == UNCHANGED listVars

\* MainFrame._show_error(message), run from the queue: a message box and the
\* status text.
ShowError ==
    /\ uiQueue # <<>> /\ Head(uiQueue).kind = "show_error"
    /\ uiQueue' = Tail(uiQueue)
    /\ status' = Status(Head(uiQueue).msg)
    /\ ErrorKeepsList
    /\ UNCHANGED <<sessionVars, default_filter, timer_running,
                   chromeVars, filter_sel, combo_hosts, search_text, debounce,
                   cacheVars, fetchWorkers, trackerWorkers, failed_ids>>
    /\ UNCHANGED <<events, lookups_done>>
    /\ UNCHANGED extVars

\* MainFrame._after_torrents_loaded(torrents, announce), run from the queue.
AfterTorrentsLoaded ==
    /\ uiQueue # <<>> /\ Head(uiQueue).kind = "loaded"
    /\ LET cb == Head(uiQueue)
           snapshot == NewSnapshot(all_torrents, cb.torrents)
       IN  /\ MissingHashes(cb.torrents, tracker_map) = <<>>
                \/ Len(trackerWorkers) < MaxTrackerWorkers
           /\ all_torrents' = snapshot
           /\ EnsureTrackerHosts(cb.torrents)
           /\ ApplyClientSideFilters(cb.announce, filter_sel, snapshot, tracker_map)
    /\ uiQueue' = Tail(uiQueue)
    /\ UNCHANGED <<sessionVars, default_filter, timer_running,
                   chromeVars, filter_sel, combo_hosts, search_text, debounce,
                   tracker_map, tracker_hosts_set, fetchWorkers, failed_ids>>
    /\ UNCHANGED <<events, lookups_done>>
    /\ UNCHANGED extVars

\* --------------------------------------------------------- tracker lookups
\* A map that keeps the newest entry only.
RecordLookupAlone(map, h, hosts) == [x \in {h} |-> hosts]

\* "self._tracker_map[h] = hosts" / "self._tracker_map[h] = set()"
RecordLookup(map, h, hosts) == MapPut(map, h, hosts)

\* A failure recorded like an answer without hosts.
RecordFailureAsEmpty(map, h) == MapPut(map, h, {})

\* "except Exception: continue": nothing is recorded for h.
RecordFailure(map, h) == map

\* The lookup worker after one identifier: it goes on with the rest of its
\* batch, or ends, posting _update_filter_combo_with_trackers when it found
\* hosts.
WorkerAdvance(i, rest, added) ==
    IF rest # <<>>
    THEN /\ trackerWorkers' = [trackerWorkers EXCEPT ![i] = [todo |-> rest, added |-> added]]
         /\ uiQueue' = uiQueue
    ELSE /\ trackerWorkers' = RemoveAt(trackerWorkers, i)
         /\ IF added # {}
            THEN CanPost /\ uiQueue' = Append(uiQueue, CbUpdateCombo(added))
            ELSE uiQueue' = uiQueue

\* _ensure_tracker_hosts.worker number i, get_torrent_trackers answered for
\* the next identifier of its batch as server variant v answers: the worker
\* thread writes the entry into the map itself.
TrackerLookupOkAt(i, v) ==
    /\ LET w == trackerWorkers[i]
           h == Head(w.todo)
           hosts == HostsOf(ServerTorrent(h, v).trackers)
       IN  /\ tracker_map' = RecordLookup(tracker_map, h, hosts)
           /\ WorkerAdvance(i, Tail(w.todo), w.added \cup hosts)
           /\ failed_ids' = failed_ids \ {h}
           /\ lookups_done' = [lookups_done EXCEPT ![h] = Min(2, @ + 1)]
    /\ UNCHANGED <<sessionVars, default_filter, timer_running,
                   chromeVars, status, filterVars, search_text, debounce,
                   all_torrents, tracker_hosts_set, listVars, fetchWorkers>>
    /\ UNCHANGED <<events>>
    /\ UNCHANGED extVars

TrackerLookupOk ==
    \E i \in 1..Len(trackerWorkers), v \in ServerVariants : TrackerLookupOkAt(i, v)

\* _ensure_tracker_hosts.worker number i, get_torrent_trackers raised for the
\* next identifier of its batch.
TrackerLookupFailAt(i) ==
    /\ LET w == trackerWorkers[i]
           h == Head(w.todo)
       IN  /\ tracker_map' = RecordFailure(tracker_map, h)
           /\ WorkerAdvance(i, Tail(w.todo), w.added)
           /\ failed_ids' = IF h \in DOMAIN tracker_map'
                            THEN failed_ids \ {h}
                            ELSE failed_ids \cup {h}
    /\ \E forbidden \in BOOLEAN : RequestFailed(forbidden)
    /\ UNCHANGED <<is_connecting, active_profile, loginWorkers,
                   default_filter, timer_running, chromeVars, status, filterVars,
                   search_text, debounce, all_torrents, tracker_hosts_set,
                   listVars, fetchWorkers>>
    /\ UNCHANGED <<events, lookups_done>>
    /\ UNCHANGED extVars

TrackerLookupFail ==
    \E i \in 1..Len(trackerWorkers) : TrackerLookupFailAt(i)

\* The selection _update_filter_combo_with_trackers keeps after rebuilding
\* the choices from FILTER_CHOICES and the known hosts.
PreservedSelection(current, hosts) ==
    IF current \in FilterChoiceSet \cup hosts
    THEN current
    ELSE IF default_filter \in FilterChoiceSet THEN default_filter ELSE FILTER_CHOICES[1]

\* MainFrame._update_filter_combo_with_trackers(added_hosts), run from the
\* queue: nothing happens unless a host is new.
UpdateFilterCombo ==
    /\ uiQueue # <<>> /\ Head(uiQueue).kind = "update_combo"
    /\ uiQueue' = Tail(uiQueue)
    /\ LET added_hosts == Head(uiQueue).hosts
       IN  IF added_hosts \ tracker_hosts_set = {}
           THEN UNCHANGED <<tracker_hosts_set, combo_hosts, filter_sel, status, listVars>>
           ELSE /\ tracker_hosts_set' = tracker_hosts_set \cup added_hosts
                /\ combo_hosts' = tracker_hosts_set'
                /\ filter_sel' = PreservedSelection(filter_sel, tracker_hosts_set')
                /\ ApplyClientSideFilters(FALSE, filter_sel', all_torrents, tracker_map)
    /\ UNCHANGED <<sessionVars, default_filter, timer_running,
                   chromeVars, search_text, debounce, all_torrents, tracker_map,
                   fetchWorkers, trackerWorkers, failed_ids>>
    /\ UNCHANGED <<events, lookups_done>>
    /\ UNCHANGED extVars

\* ------------------------------------------------------------------- Next
Next ==
    \/ AutoConnectOrPrompt
    \/ OnConnectMenu
    \/ LoginSucceed
    \/ LoginFail
    \/ ConnectFailed
    \/ ApplyConnection
    \/ Disconnect
    \/ SwitchProfile
    \/ OnFilterChanged
    \/ OnSearchChanged
    \/ DebounceFire
    \/ SelectRow
    \/ RefreshButton
    \/ TimerTick
    \/ FetchSucceed
    \/ FetchFail
    \/ ShowError
    \/ AfterTorrentsLoaded
    \/ TrackerLookupOk
    \/ TrackerLookupFail
    \/ UpdateFilterCombo

Spec == Init /\ [][Next]_vars

\* ------------------------------------------- a server with many torrents
\* The same window against a server holding more torrents than one batch of
\* tracker lookups takes.  The run starts where _apply_connection leaves the
\* window (session up, first fetch in flight); the user only refreshes.
LargeMax == MAX_TRACKER_LOOKUPS_PER_REFRESH + 2

\* Torrents lo..hi as TorrentDetail.from_api builds them.
LargeList(lo, hi) ==
    [i \in 1..(hi - lo + 1) |-> FromApi(ServerTorrent(lo + i - 1, 2))]

\* The lists the large server returns: its newest torrent alone, one full
\* batch, and everything.
LargeAnswers ==
    {LargeList(LargeMax, LargeMax),
     LargeList(1, MAX_TRACKER_LOOKUPS_PER_REFRESH),
     LargeList(1, LargeMax)}

InitLarge ==
    /\ auth = TRUE
    /\ is_connecting = FALSE
    /\ active_profile = "Default"
    /\ default_filter = "all"
    /\ timer_running = TRUE
    /\ connection_label = "Connected"
    /\ connect_menu_enabled = FALSE
    /\ disconnect_menu_enabled = TRUE
    /\ status = Status("Refreshing torrents")
    /\ filter_sel = "all"
    /\ combo_hosts = {}
    /\ search_text = <<>>
    /\ debounce = 0
    /\ all_torrents = <<>>
    /\ tracker_map = EmptyMap
    /\ tracker_hosts_set = {}
    /\ displayed_hashes = <<>>
    /\ list_torrents = <<>>
    /\ list_items = <<>>
    /\ list_selected = {}
    /\ uiQueue = <<>>
    /\ fetchWorkers = <<FetchWorker("all", TRUE)>>
    /\ trackerWorkers = <<>>
    /\ loginWorkers = <<>>
    /\ events = 0
    /\ lookups_done = [h \in 1..LargeMax |-> 0]
    /\ failed_ids = {}
    /\ http_log = <<>>
    /\ outcome = [call |-> "", hashes |-> <<>>, sent |-> FALSE,
                  resp |-> [status |-> 0, body |-> <<>>],
                  raised |-> [class |-> "", message |-> "", status_code |-> 0,
                              text |-> <<>>]]
    /\ bulkWorkers = <<>>
    /\ settings = Kept(SavedSettings("all"))
    /\ file = Payload(SavedSettings("all"))
    /\ timer_interval = TimerInterval(5)
    /\ pending_items = <<>>
    /\ enqueued = <<>>
    /\ handed = <<>>
    /\ dialog = NoDialog

\* A fetch worker is answered by the large server.
FetchSucceedLarge ==
    \E i \in 1..Len(fetchWorkers), torrents \in LargeAnswers :
        FetchAnswered(i, torrents)

\* A result is applied once the lookups of the cycle before it have ended
\* (overlapping lookup workers are what Spec explores).
AfterTorrentsLoadedLarge == trackerWorkers = <<>> /\ AfterTorrentsLoaded

\* Lookups on the large server: every torrent is on tracker 1, and only the
\* lookups of its two newest torrents ever fail.
TrackerLookupOkLarge ==
    \E i \in 1..Len(trackerWorkers) : TrackerLookupOkAt(i, 2)

TrackerLookupFailLarge ==
    \E i \in 1..Len(trackerWorkers) :
        /\ Head(trackerWorkers[i].todo) > MAX_TRACKER_LOOKUPS_PER_REFRESH
        /\ TrackerLookupFailAt(i)

NextLarge ==
    \/ RefreshButton
    \/ TimerTick
    \/ FetchSucceedLarge
    \/ AfterTorrentsLoadedLarge
    \/ TrackerLookupOkLarge
    \/ TrackerLookupFailLarge
    \/ UpdateFilterCombo

SpecLarge == InitLarge /\ [][NextLarge]_vars

\* ------------------------------------------------- polling without an end
\* The large server polled by the timer for as long as the session lasts.
\* Its list never changes; the lookups of the identifiers in FailingIds fail
\* on every cycle (a timeout, not a 403), those of the others succeed.
FailingIds == 2..(MAX_TRACKER_LOOKUPS_PER_REFRESH + 1)

\* EVT_TIMER, as TimerTick, with no budget of ticks; the period of the timer
\* is longer than a fetch and its application take.
TimerTickAgain ==
    /\ timer_running
    /\ auth
    /\ fetchWorkers = <<>> /\ uiQueue = <<>>
    /\ RefreshTorrents(FALSE, auth, filter_sel)
    /\ UNCHANGED <<sessionVars, default_filter, timer_running,
                   chromeVars, filter_sel, combo_hosts, search_text, debounce,
                   cacheVars, listVars, uiQueue, trackerWorkers, failed_ids>>
    /\ UNCHANGED <<events, lookups_done>>
    /\ UNCHANGED extVars

FetchSucceedCycles ==
    \E i \in 1..Len(fetchWorkers) : FetchAnswered(i, LargeList(1, LargeMax))

TrackerLookupOkCycles ==
    \E i \in 1..Len(trackerWorkers) :
        /\ Head(trackerWorkers[i].todo) \notin FailingIds
        /\ TrackerLookupOkAt(i, 2)

TrackerLookupFailCycles ==
    \E i \in 1..Len(trackerWorkers) :
        /\ Head(trackerWorkers[i].todo) \in FailingIds
        /\ TrackerLookupFailAt(i)
        /\ auth' = auth

NextCycles ==
    \/ TimerTickAgain
    \/ FetchSucceedCycles
    \/ AfterTorrentsLoadedLarge
    \/ TrackerLookupOkCycles
    \/ TrackerLookupFailCycles
    \/ UpdateFilterCombo

\* The timer keeps firing, every worker thread gets its answer and the UI
\* loop runs every posted callback.
FairCycles ==
    /\ WF_vars(TimerTickAgain)
    /\ WF_vars(FetchSucceedCycles)
    /\ WF_vars(AfterTorrentsLoadedLarge)
    /\ WF_vars(TrackerLookupOkCycles)
    /\ WF_vars(TrackerLookupFailCycles)
    /\ WF_vars(UpdateFilterCombo)

SpecCycles == InitLarge /\ [][NextCycles]_vars /\ FairCycles

\* --------------------------------------------------------- bulk commands
\* The session flag of the client a worker sends its request with.
ClientFlag(w) == IF w.bound /\ w.stale THEN w.flag ELSE auth

\* The two guards of _delete_selected and _perform_on_selection; proceed says
\* whether the command gets past them.
SelectionGuardOnly(proceed) ==
    IF GetSelectedHashes(list_torrents, list_selected) = {}
    THEN ~proceed /\ status' = Status("Select a torrent first")
    ELSE proceed /\ UNCHANGED status
CommandGuards(proceed) ==
    IF ~auth
    THEN ~proceed /\ status' = Status("Connect to a qBittorrent server first")
    ELSE IF GetSelectedHashes(list_torrents, list_selected) = {}
         THEN ~proceed /\ status' = Status("Select a torrent first")
         ELSE proceed /\ UNCHANGED status

\* What a bulk command leaves alone.
CommandFrame ==
    /\ UserEvent
    /\ UNCHANGED <<sessionVars, default_filter, timer_running, chromeVars,
                   filter_sel, combo_hosts, search_text, debounce, cacheVars,
                   listVars, uiQueue, fetchWorkers, trackerWorkers, failed_ids,
                   lookups_done, clientVars, settingsVars, timer_interval,
                   openVars, dialog>>

\* MainFrame._perform_on_selection(action_name, callback), reached from
\* _pause_selected, _resume_selected and _recheck_selected.
PerformOnSelection ==
    /\ Len(bulkWorkers) < MaxBulkWorkers
    /\ \E action_name \in {"pause", "resume", "recheck"}, proceed \in BOOLEAN :
          /\ CommandGuards(proceed)
          /\ bulkWorkers' =
                IF proceed
                THEN Append(bulkWorkers,
                            BulkWorker(action_name,
                                       GetSelectedHashes(list_torrents, list_selected),
                                       TRUE))
                ELSE bulkWorkers
    /\ CommandFrame

\* MainFrame._delete_selected(delete_files); yes is the answer to the
\* confirmation box, shown when settings.confirm_delete is set.
DeleteSelected ==
    /\ Len(bulkWorkers) < MaxBulkWorkers
    /\ \E proceed \in BOOLEAN, yes \in BOOLEAN :
          /\ CommandGuards(proceed)
          /\ ~settings.confirm_delete => yes
          /\ bulkWorkers' =
                IF proceed /\ yes
                THEN Append(bulkWorkers,
                            BulkWorker("delete",
                                       GetSelectedHashes(list_torrents, list_selected),
                                       FALSE))
                ELSE bulkWorkers
    /\ CommandFrame

\* What a step of a bulk worker leaves alone.
WorkerFrame ==
    UNCHANGED <<is_connecting, active_profile, loginWorkers, default_filter,
                timer_running, chromeVars, status, filter_sel, combo_hosts,
                search_text, debounce, cacheVars, listVars, fetchWorkers,
                trackerWorkers, failed_ids, events, lookups_done, clientVars,
                settingsVars, timer_interval, openVars, dialog>>

\* A bulk worker's request is accepted by the server: _set_status (for
\* pause, resume and recheck) and refresh_torrents are posted.
BulkWorkerSucceed ==
    /\ CanPost
    /\ \E i \in 1..Len(bulkWorkers) :
          /\ uiQueue' = Append(uiQueue, CbSimple("refresh", bulkWorkers[i].action))
          /\ bulkWorkers' = RemoveAt(bulkWorkers, i)
    /\ UNCHANGED auth
    /\ WorkerFrame

\* A bulk worker's request raises: _show_error is posted.  Status 403 clears
\* the session flag of the client the request was sent with.
BulkWorkerFail ==
    /\ CanPost
    /\ \E i \in 1..Len(bulkWorkers), forbidden \in BOOLEAN :
          /\ uiQueue' = Append(uiQueue,
                               CbSimple("show_error",
                                        IF bulkWorkers[i].action = "delete"
                                        THEN "Delete failed" ELSE "Failed to"))
          /\ bulkWorkers' = RemoveAt(bulkWorkers, i)
          /\ IF bulkWorkers[i].bound /\ bulkWorkers[i].stale
             THEN UNCHANGED auth
             ELSE RequestFailed(forbidden)
    /\ WorkerFrame

\* The callbacks of a finished bulk worker, run from the queue:
\* _set_status("Action '...' submitted") and then refresh_torrents(), which
\* announces and so sets the status text again.
RefreshPosted ==
    /\ uiQueue # <<>> /\ Head(uiQueue).kind = "refresh"
    /\ CanStartFetch \/ ~auth
    /\ uiQueue' = Tail(uiQueue)
    /\ RefreshTorrents(TRUE, auth, filter_sel)
    /\ UNCHANGED <<sessionVars, default_filter, timer_running, chromeVars,
                   filter_sel, combo_hosts, search_text, debounce, cacheVars,
                   listVars, trackerWorkers, failed_ids, events, lookups_done>>
    /\ UNCHANGED extVars

\* ---------------------------------------------------------- opening items
\* MainFrame._enqueue_open_items(items, notify): the normalised items are
\* appended to _pending_items and processed at once when a session is up.
EnqueueOpenItems(items, notify) ==
    LET normalized == Normalized(items)
        pending == pending_items \o normalized
    IN  IF normalized = <<>>
        THEN UNCHANGED <<openVars, bulkWorkers, status>>
        ELSE /\ enqueued' = enqueued \o normalized
             /\ ProcessPendingItems(auth, pending, bulkWorkers)
             /\ status' =
                   IF auth
                   THEN (IF Refused(pending) # <<>> THEN Status("Cannot open") ELSE status)
                   ELSE IF notify
                        THEN Status("Pending torrents will be added after connecting")
                        ELSE status

\* MainFrame._open_torrent_files_dialog, confirmed with the paths chosen.
OpenTorrentFilesDialog ==
    /\ \E paths \in DialogPaths :
          /\ Len(enqueued) + Len(paths) <= MaxOpenItems
          /\ EnqueueOpenItems(paths, TRUE)
    /\ UserEvent
    /\ UNCHANGED <<sessionVars, default_filter, timer_running, chromeVars,
                   filter_sel, combo_hosts, search_text, debounce, cacheVars,
                   listVars, uiQueue, fetchWorkers, trackerWorkers, failed_ids,
                   lookups_done, clientVars, settingsVars, timer_interval,
                   dialog>>

\* The window as far as items are concerned: connecting, leaving, opening,
\* the add workers and the failures that end a session; fetch results are
\* left unapplied.
NextOpen ==
    \/ AutoConnectOrPrompt
    \/ OnConnectMenu
    \/ LoginSucceed
    \/ LoginFail
    \/ ConnectFailed
    \/ ApplyConnection
    \/ Disconnect
    \/ SwitchProfile
    \/ OpenTorrentFilesDialog
    \/ BulkWorkerSucceed
    \/ BulkWorkerFail
    \/ RefreshPosted
    \/ FetchFail
    \/ ShowError

SpecOpen ==
    InitFrom({NoFile, Payload(SavedSettings("all"))}, Argvs) /\ [][NextOpen]_vars

\* ----------------------------------------------- managing the profiles
\* The settings files the profile manager is opened on: none, the two
\* profiles of SavedSettings, and three profiles that differ in every field
\* with the second one active.
ManagerFiles ==
    {NoFile, Payload(SavedSettings("all")),
     Payload(AppSettings(
        [host |-> "http://seedbox:8080", username |-> "carol",
         password |-> "secret", verify_ssl |-> FALSE, timeout |-> 30],
        5, TRUE, "all", TRUE, TRUE,
        <<[name |-> "Default", conn |-> DefaultConnection],
          [name |-> "Seedbox",
           conn |-> [host |-> "http://seedbox:8080", username |-> "carol",
                     password |-> "secret", verify_ssl |-> FALSE, timeout |-> 30]],
          [name |-> "Home",
           conn |-> [host |-> "http://home:8080", username |-> "dave",
                     password |-> "", verify_ssl |-> TRUE, timeout |-> 60]]>>,
        "Seedbox"))}

\* What a handler of the dialog leaves alone: the window behind it.
DialogFrame ==
    UNCHANGED <<sessionVars, default_filter, timer_running, chromeVars, status,
                filter_sel, combo_hosts, search_text, debounce, cacheVars,
                listVars, uiQueue, fetchWorkers, trackerWorkers, failed_ids,
                lookups_done, clientVars, bulkWorkers, settingsVars, timer_interval, openVars>>

\* One more input of the user in the dialog.
DialogEvent ==
    /\ dialog.open
    /\ events < MaxDialogEvents
    /\ events' = events + 1
    /\ DialogFrame

\* MainFrame._open_profiles_manager, up to ShowModal.
OpenProfilesManager ==
    /\ ~dialog.open
    /\ dialog' = ProfileManagerDialog(settings.profiles, active_profile)
    /\ UNCHANGED events
    /\ DialogFrame

\* _on_list_select: the user selects a row of the list.
OnListSelect ==
    /\ \E i \in 1..Len(dialog.profiles) :
          dialog' = LoadSelectedIntoFields(dialog, dialog.profiles[i].name)
    /\ DialogEvent

\* _on_field_change: the user changes the controls of the connection.
OnFieldChange ==
    /\ \E typed \in TypedFields :
          dialog' = FieldChange([dialog EXCEPT !.host = typed.host,
                                               !.username = typed.username,
                                               !.password = typed.password,
                                               !.verify_ssl = typed.verify_ssl,
                                               !.timeout = typed.timeout])
    /\ DialogEvent

\* _on_add, with room for one more profile.
OnAdd ==
    /\ Len(dialog.profiles) < MaxProfiles
    /\ dialog' = Add(dialog)
    /\ DialogEvent

\* _on_remove.
OnRemove ==
    /\ dialog' = Remove(dialog)
    /\ DialogEvent

\* _on_name_change: the user changes the text of the name field.
OnNameChange ==
    /\ \E typed \in TypedNames : dialog' = NameChange([dialog EXCEPT !.name = typed])
    /\ DialogEvent

\* _move_selected(-1) and _move_selected(1): Move Up and Move Down.
MoveUp ==
    /\ dialog' = Move(dialog, -1)
    /\ DialogEvent

MoveDown ==
    /\ dialog' = Move(dialog, 1)
    /\ DialogEvent

NextProfiles ==
    \/ OpenProfilesManager
    \/ OnListSelect
    \/ OnFieldChange
    \/ OnAdd
    \/ OnRemove
    \/ OnNameChange
    \/ MoveUp
    \/ MoveDown

SpecProfiles == InitFrom(ManagerFiles, {<<>>}) /\ [][NextProfiles]_vars

\* ------------------------------------------------------ the whole session
\* Settings files of earlier runs: a short refresh interval, and automatic
\* refresh switched off.
SessionFiles ==
    {NoFile,
     Payload([SavedSettings("all") EXCEPT !.refresh_seconds = 1]),
     Payload([SavedSettings("all") EXCEPT !.auto_refresh = FALSE,
                                          !.confirm_delete = FALSE])}

\* The user may type a host into the connection dialog.
AutoConnectOrPromptTyped == AutoConnectOrPromptAt(TypedHosts)
OnConnectMenuTyped == OnConnectMenuAt(TypedHosts)

NextSession ==
    \/ AutoConnectOrPromptTyped
    \/ OnConnectMenuTyped
    \/ LoginSucceed
    \/ LoginFail
    \/ ConnectFailed
    \/ ApplyConnection
    \/ Disconnect
    \/ SwitchProfile
    \/ SelectRow
    \/ TimerTick
    \/ FetchSucceed
    \/ FetchFail
    \/ ShowError
    \/ AfterTorrentsLoaded
    \/ TrackerLookupOk
    \/ TrackerLookupFail
    \/ UpdateFilterCombo
    \/ PerformOnSelection
    \/ DeleteSelected
    \/ BulkWorkerSucceed
    \/ BulkWorkerFail
    \/ RefreshPosted

SpecSession == InitFrom(SessionFiles, {<<>>}) /\ [][NextSession]_vars

\* -------------------------------------------------- the settings file alone
\* What SETTINGS_FILE may hold when the program starts: documents written by
\* save_settings, older (legacy) documents, and documents edited by hand.
StoreFiles ==
    LET seedbox == ConnectionTo("http://seedbox:8080")
        Member(name, value) == [name |-> name, value |-> value]
        default_member == Member("Default", AsDict(DefaultConnection))
        seedbox_member == Member("Seedbox", AsDict(seedbox))
        stray_key == JObject({"host", "port"}, seedbox)
    IN  {NoFile, NotJson, JsonFile(JNull), JsonFile(JList(<<1>>))}
        \cup {JsonFile(data) :
                data \in [connection : {Absent, JNull, JInt(5), AsDict(seedbox),
                                        JObject({"host"}, seedbox), stray_key},
                          refresh_seconds : {Absent, JNull, JInt(1), JStr("7"),
                                             JStr("abc"), JBool(TRUE)},
                          auto_refresh : {Absent, JBool(FALSE)},
                          default_filter : {Absent, JStr("paused"), JInt(5)},
                          confirm_delete : {Absent},
                          profiles : {Absent, JNull, JList(<<1>>), JProfiles(<<>>),
                                      JProfiles(<<default_member>>),
                                      JProfiles(<<default_member, seedbox_member>>),
                                      JProfiles(<<seedbox_member, default_member>>),
                                      JProfiles(<<Member("Default", JInt(5)), seedbox_member>>),
                                      JProfiles(<<Member("Seedbox", stray_key)>>),
                                      JProfiles(<<Member("Seedbox", JNull)>>)},
                          active_profile : {Absent, JNull, JStr("Default"),
                                            JStr("Seedbox"), JStr("Gone"), JInt(5)}]}

\* The program is closed and started again: its threads are gone, and
\* MainFrame.__init__ loads the file and builds the window from it.
Relaunch ==
    /\ settings' = Kept(LoadSettings(file))
    /\ active_profile' = LoadSettings(file).active_profile
    /\ default_filter' = LoadSettings(file).default_filter
    /\ filter_sel' = IF default_filter' \in FilterChoiceSet THEN default_filter'
                     ELSE FILTER_CHOICES[1]
    /\ timer_running' = settings'.auto_refresh
    /\ timer_interval' = IF settings'.auto_refresh
                         THEN TimerInterval(settings'.refresh_seconds) ELSE 0
    /\ auth' = FALSE
    /\ is_connecting' = FALSE
    /\ connection_label' = "Disconnected"
    /\ connect_menu_enabled' = TRUE
    /\ disconnect_menu_enabled' = FALSE
    /\ status' = Status("Ready")
    /\ combo_hosts' = {}
    /\ search_text' = <<>>
    /\ debounce' = 0
    /\ ClearCaches
    /\ uiQueue' = <<CbSimple("auto_connect", "")>>
    /\ fetchWorkers' = <<>>
    /\ trackerWorkers' = <<>>
    /\ loginWorkers' = <<>>
    /\ bulkWorkers' = <<>>
    /\ failed_ids' = {}
    /\ UNCHANGED <<file, events, lookups_done, clientVars, openVars, dialog>>

\* save_settings(self.settings), called on its own.
Save ==
    /\ SaveSettings(CurrentSettings)
    /\ UNCHANGED <<auth, is_connecting, active_profile, default_filter,
                   timer_running, chromeVars, status, filter_sel, combo_hosts,
                   search_text, debounce, cacheVars, listVars, uiQueue,
                   fetchWorkers, trackerWorkers, loginWorkers, events,
                   lookups_done, failed_ids, clientVars, bulkWorkers,
                   timer_interval, openVars, dialog>>

NextStore ==
    \/ Relaunch
    \/ Save
    \/ SwitchProfile

SpecStore == InitFrom(StoreFiles, {<<>>}) /\ [][NextStore]_vars

\* ------------------------------------------------------ QBittorrentClient
\* The status codes and bodies a server answers with.
Responses ==
    [status : {200, 304, 401, 403, 404, 500},
     body : {<<"O", "k", ".">>, <<"F", "a", "i", "l", "s", ".">>, <<"[", "]">>, <<>>}]

\* The collections of hashes the bulk methods are called with.
HashLists == {<<>>, <<1>>, <<1, 2>>}
BulkPaths == {"torrents/pause", "torrents/resume", "torrents/recheck",
              "torrents/increasePrio", "torrents/decreasePrio"}

\* "|".join(hashes); the separator is written 0.
RECURSIVE Join(_)
Join(hashes) ==
    IF Len(hashes) <= 1 THEN hashes
    ELSE <<Head(hashes), 0>> \o Join(Tail(hashes))

\* What a call raised.
Raised(class, message, status_code, text) ==
    [class |-> class, message |-> message, status_code |-> status_code, text |-> text]
NotRaised == Raised("", "", 0, <<>>)
AuthenticationFailed ==
    Raised("QBittorrentAPIError", "Authentication failed or session expired", 0, <<>>)
ApiRequestFailed(resp) ==
    Raised("QBittorrentAPIError", "API request failed", resp.status, resp.body)
InvalidLogin ==
    Raised("QBittorrentAPIError", "Invalid username or password", 0, <<>>)
HashRequired == Raised("ValueError", "At least one torrent hash is required", 0, <<>>)
JSONDecodeError == Raised("JSONDecodeError", "", 0, <<>>)

\* QBittorrentClient._request once the server has answered resp: the flag
\* it leaves and what it raises.
Request(authenticated, resp) ==
    IF resp.status = 403
    THEN [is_authenticated |-> FALSE, raised |-> AuthenticationFailed]
    ELSE IF resp.status >= 400
         THEN [is_authenticated |-> authenticated, raised |-> ApiRequestFailed(resp)]
         ELSE [is_authenticated |-> authenticated, raised |-> NotRaised]

\* The record of a call: the method, its hashes, the response it got (if a
\* request was sent) and what it raised.
Outcome(call, hashes, sent, resp, raised) ==
    [call |-> call, hashes |-> hashes, sent |-> sent, resp |-> resp, raised |-> raised]
NoResponse == [status |-> 0, body |-> <<>>]

\* self._session.request(method, url, ...) as the server sees it.
Sent(method, path, hashes) == [method |-> method, path |-> path, hashes |-> hashes]

\* `"Ok." in resp.text` of login.
LoginAcceptedAlways(text) == TRUE
LoginAccepted(text) == Contains(<<"O", "k", ".">>, text)

\* json.loads(resp.text) of get_torrents accepts the text.
IsJson(text) == text = <<"[", "]">>

\* The user interface is left alone by a direct call of a client method.
ClientCall ==
    /\ Len(http_log) < MaxRequests
    /\ UNCHANGED <<is_connecting, active_profile, default_filter, timer_running,
                   chromeVars, status, filterVars, search_text, debounce,
                   cacheVars, listVars, uiQueue, fetchWorkers, trackerWorkers,
                   loginWorkers, events, lookups_done, failed_ids, bulkWorkers,
                   settingsVars, timer_interval, openVars, dialog>>

\* QBittorrentClient.login.
Login ==
    \E resp \in Responses :
    /\ ClientCall
    /\ http_log' = Append(http_log, Sent("post", "auth/login", <<>>))
    /\ LET r == Request(auth, resp)
       IN  IF r.raised # NotRaised
           THEN /\ auth' = r.is_authenticated
                /\ outcome' = Outcome("login", <<>>, TRUE, resp, r.raised)
           ELSE IF ~LoginAccepted(resp.body)
                THEN /\ auth' = r.is_authenticated
                     /\ outcome' = Outcome("login", <<>>, TRUE, resp, InvalidLogin)
                ELSE /\ auth' = TRUE
                     /\ outcome' = Outcome("login", <<>>, TRUE, resp, NotRaised)

\* QBittorrentClient.logout: the finally clause runs whatever _request did.
Logout ==
    \E resp \in Responses :
    /\ ClientCall
    /\ http_log' = Append(http_log, Sent("post", "auth/logout", <<>>))
    /\ auth' = FALSE
    /\ outcome' = Outcome("logout", <<>>, TRUE, resp, Request(auth, resp).raised)

\* QBittorrentClient.get_torrents.
GetTorrentsCall ==
    \E resp \in Responses :
    /\ ClientCall
    /\ http_log' = Append(http_log, Sent("get", "torrents/info", <<>>))
    /\ LET r == Request(auth, resp)
       IN  /\ auth' = r.is_authenticated
           /\ outcome' = Outcome("get_torrents", <<>>, TRUE, resp,
                                 IF r.raised = NotRaised /\ ~IsJson(resp.body)
                                 THEN JSONDecodeError ELSE r.raised)

\* QBittorrentClient._bulk_action(path, hashes), which pause_torrents,
\* resume_torrents, recheck_torrents, increase_priority and decrease_priority
\* call with their own path.
BulkAction(path, hashes, resp) ==
    /\ ClientCall
    /\ IF Join(hashes) = <<>>
       THEN /\ outcome' = Outcome(path, hashes, FALSE, NoResponse, HashRequired)
            /\ UNCHANGED <<auth, http_log>>
       ELSE LET r == Request(auth, resp)
            IN  /\ http_log' = Append(http_log, Sent("post", path, Join(hashes)))
                /\ auth' = r.is_authenticated
                /\ outcome' = Outcome(path, hashes, TRUE, resp, r.raised)

\* QBittorrentClient.delete_torrents(hashes).
DeleteTorrents(hashes, resp) ==
    /\ ClientCall
    /\ LET r == Request(auth, resp)
       IN  /\ http_log' = Append(http_log, Sent("post", "torrents/delete", Join(hashes)))
           /\ auth' = r.is_authenticated
           /\ outcome' = Outcome("torrents/delete", hashes, TRUE, resp, r.raised)

BulkActionCall ==
    \E path \in BulkPaths, hashes \in HashLists, resp \in Responses :
        BulkAction(path, hashes, resp)
DeleteTorrentsCall ==
    \E hashes \in HashLists, resp \in Responses : DeleteTorrents(hashes, resp)

NextClient ==
    \/ Login
    \/ Logout
    \/ GetTorrentsCall
    \/ BulkActionCall
    \/ DeleteTorrentsCall

SpecClient == Init /\ [][NextClient]_vars

\* ------------------------------------------------------------- properties
\* No callback waits in the queue, no debounce timer is pending and no
\* worker thread is alive.
Quiescent ==
    /\ uiQueue = <<>>
    /\ debounce = 0
    /\ fetchWorkers = <<>>
    /\ trackerWorkers = <<>>
    /\ loginWorkers = <<>>

\* The session has been up since the last connection and its last fetch
\* did not fail.
SessionUp ==
    /\ auth
    /\ disconnect_menu_enabled
    /\ status[1] # "Failed to refresh"

\* The rows on screen are those of the last render (no disconnect has wiped
\* them since).
RowsAreLastRender == RenderedHashes = displayed_hashes

\* No identifier has had its trackers answered twice.
NoRepeatedLookup == \A h \in DOMAIN lookups_done : lookups_done[h] <= 1

\* What the list should show: the cached snapshot narrowed by the selected
\* tracker host and by the search text, in snapshot order.
ExpectedHashes == Hashes(Candidate(all_torrents, filter_sel, search_text, tracker_map))

\* C1: whenever no posted callback waits and no debounce timer is pending,
\* the identifiers rendered in the list are the cached snapshot narrowed by
\* the tracker-host filter and the search text, in snapshot order.  Stated
\* here for the states of a running session in which, besides, no worker is
\* alive, the last fetch did not fail, the rows are those of the last render
\* and no identifier was looked up twice.
C1_RenderedIsFilteredSnapshot ==
    (Quiescent /\ SessionUp /\ RowsAreLastRender /\ NoRepeatedLookup)
        => RenderedHashes = ExpectedHashes

\* C2: the result of a fetch that was in flight when the user disconnected
\* changes nothing when it arrives: a loaded callback applied while the
\* session is down (Disconnect menu item disabled, no login since) leaves the
\* snapshot, the tracker map, the displayed identifiers and the rows alone.
C2_StaleFetchHasNoEffect ==
    [][(AfterTorrentsLoaded /\ ~auth /\ ~disconnect_menu_enabled)
          => UNCHANGED <<all_torrents, tracker_map, displayed_hashes, list_items>>]_vars

\* All four caches are empty.
CachesEmpty(all, map, hosts, displayed) ==
    all = <<>> /\ map = EmptyMap /\ hosts = {} /\ displayed = <<>>

\* C3: right after a disconnect and right after a profile switch the cached
\* snapshot, the tracker map, the known hosts and the displayed identifiers
\* are all empty.
C3_CachesClearedOnLeave ==
    [][(Disconnect \/ SwitchProfile)
          => CachesEmpty(all_torrents', tracker_map', tracker_hosts_set', displayed_hashes')]_vars

\* The lists get_torrents can return.
ServerAnswers ==
    {GetTorrents(ServerList(v), f) : v \in ServerVariants, f \in FilterChoiceSet}

\* The loaded callbacks waiting in the queue.
PendingLoaded == {i \in 1..Len(uiQueue) : uiQueue[i].kind = "loaded"}

\* C4: results of overlapping fetches are applied one at a time, and after
\* each application the cached snapshot is exactly the list that one fetch
\* returned, never a mixture of two fetches.
C4_SnapshotIsOneFetch ==
    [][AfterTorrentsLoaded
          => (all_torrents' = Head(uiQueue).torrents /\ all_torrents' \in ServerAnswers)]_vars

\* Overlap: one fetch has been applied while the result of another, with a
\* different list, already waits behind it.
C4_Witness ==
    /\ all_torrents # <<>>
    /\ \E i \in PendingLoaded :
          /\ uiQueue[i].torrents # all_torrents
          /\ uiQueue[i].torrents # <<>>

\* C5: each identifier has at most one tracker lookup that completes
\* successfully; once it has an entry no later cycle looks it up again.
C5_AtMostOneLookup == \A h \in DOMAIN lookups_done : lookups_done[h] <= 1

\* The state a failed fetch must not touch.
viewVars ==
    <<all_torrents, tracker_map, displayed_hashes, list_torrents, list_items,
      list_selected>>

\* C8: a failed fetch produces a user-visible error and leaves the snapshot,
\* the tracker map, the displayed identifiers and the rows as they were: the
\* worker's failure step posts the error and the error handler shows it, and
\* neither touches them.
C8_FailedFetchKeepsView ==
    [][/\ FetchFail => (/\ UNCHANGED viewVars
                        /\ uiQueue'[Len(uiQueue')].kind = "show_error")
       /\ ShowError => (/\ UNCHANGED viewVars
                        /\ status' = Status(Head(uiQueue).msg))]_vars

\* A failed refresh has been reported over a list that is still shown.
C8_Witness ==
    /\ status = Status("Failed to refresh")
    /\ all_torrents # <<>>
    /\ list_items # <<>>
    /\ displayed_hashes = Hashes(all_torrents)

\* C9: a fetch cycle whose snapshot yields, under the current filter and
\* search text, the same ordered identifiers as the previous render causes
\* no re-render: rows and selection are left as they are.
C9_NoRerenderWhenSame ==
    [][(/\ AfterTorrentsLoaded
        /\ Hashes(Candidate(Head(uiQueue).torrents, filter_sel, search_text, tracker_map))
              = displayed_hashes)
          => UNCHANGED <<displayed_hashes, list_torrents, list_items, list_selected>>]_vars

\* A cycle was applied without re-rendering: the snapshot's identifiers are
\* the displayed ones, a row still shows the state of the previous snapshot,
\* and the selection is still there.
C9_Witness ==
    /\ displayed_hashes = Hashes(all_torrents)
    /\ Len(list_items) = Len(all_torrents)
    /\ \E i \in 1..Len(list_items) : list_items[i] # Row(all_torrents[i])
    /\ list_selected # {}

\* The identifiers whose tracker map entry contains host.
OnHost(host) == {h \in DOMAIN tracker_map : host \in tracker_map[h]}

\* C10: when the selected filter is a discovered tracker host, the displayed
\* set is exactly the set of torrents whose tracker map entry contains it,
\* whichever status filter was selected before.  Stated for a running
\* session at rest with an empty search box.
C10_HostFilterShowsAllOnHost ==
    (/\ Quiescent /\ SessionUp /\ RowsAreLastRender /\ NoRepeatedLookup
     /\ filter_sel \notin FilterChoiceSet
     /\ Strip(search_text) = <<>>)
        => {RenderedHashes[i] : i \in 1..Len(RenderedHashes)} = OnHost(filter_sel)

\* The lookup worker a step has just started, if it started one.
StartedWorker == trackerWorkers'[Len(trackerWorkers')]
StartsWorker ==
    /\ Len(trackerWorkers') = Len(trackerWorkers) + 1
    /\ SubSeq(trackerWorkers', 1, Len(trackerWorkers)) = trackerWorkers

\* The position of h in the sequence ids (0 when absent).
IndexIn(ids, h) ==
    IF \E k \in 1..Len(ids) : ids[k] = h
    THEN CHOOSE k \in 1..Len(ids) : ids[k] = h /\ \A j \in 1..(k - 1) : ids[j] # h
    ELSE 0

\* C6: each applied fetch cycle starts tracker lookups for at most 40
\* identifiers, namely the first 40 snapshot identifiers missing from the
\* tracker map, however many are missing; a cycle with none missing starts
\* no lookup.
C6_BatchIsFirstForty ==
    [][AfterTorrentsLoaded =>
          LET missing == MissingHashes(Head(uiQueue).torrents, tracker_map)
          IN  IF missing = <<>>
              THEN trackerWorkers' = trackerWorkers
              ELSE /\ StartsWorker
                   /\ LET batch == StartedWorker.todo
                      IN  /\ Len(batch) <= MAX_TRACKER_LOOKUPS_PER_REFRESH
                          /\ Len(batch) = IF Len(missing) > MAX_TRACKER_LOOKUPS_PER_REFRESH
                                          THEN MAX_TRACKER_LOOKUPS_PER_REFRESH
                                          ELSE Len(missing)
                          /\ \A k \in 1..Len(batch) : batch[k] = missing[k]]_vars

\* A full batch is at work while identifiers beyond it still miss an entry.
C6_Witness ==
    /\ Len(MissingHashes(all_torrents, tracker_map)) > MAX_TRACKER_LOOKUPS_PER_REFRESH
    /\ \E i \in 1..Len(trackerWorkers) :
          /\ Len(trackerWorkers[i].todo) = MAX_TRACKER_LOOKUPS_PER_REFRESH
          /\ trackerWorkers[i].todo = SubSeq(Hashes(all_torrents), 1, MAX_TRACKER_LOOKUPS_PER_REFRESH)

\* The failure of worker i's lookup is swallowed: no error is surfaced, the
\* map gets no entry, and the rest of the batch is still to be looked up.
FailureSwallowed(i) ==
    LET rest == Tail(trackerWorkers[i].todo)
    IN  /\ status' = status
        /\ \A k \in 1..Len(uiQueue') : uiQueue'[k].kind # "show_error"
        /\ tracker_map' = tracker_map
        /\ rest # <<>> =>
              /\ Len(trackerWorkers') = Len(trackerWorkers)
              /\ trackerWorkers'[i].todo = rest

\* The cycle being applied looks up again every identifier of its snapshot
\* that failed before, has no entry, and sits at a position up to cap among
\* the snapshot's identifiers without an entry.
RetriesFailed(cap) ==
    LET missing == MissingHashes(Head(uiQueue).torrents, tracker_map)
    IN  \A h \in failed_ids :
            (IndexIn(missing, h) \in 1..cap)
                => (StartsWorker /\ IndexIn(StartedWorker.todo, h) > 0)

\* C7 as stated: a failed lookup is swallowed and the identifier is looked
\* up again on a later cycle in which it is still in the snapshot.
C7_FailedLookupRetried ==
    [][/\ \A i \in 1..Len(trackerWorkers) : TrackerLookupFailAt(i) => FailureSwallowed(i)
       /\ AfterTorrentsLoaded => RetriesFailed(LargeMax)]_vars

\* C7 with the cap: the identifier is looked up again on a later cycle in
\* which it is still in the snapshot, still has no entry and is among the
\* first 40 identifiers without an entry.
C7_FailedLookupRetriedWithinCap ==
    [][/\ \A i \in 1..Len(trackerWorkers) : TrackerLookupFailAt(i) => FailureSwallowed(i)
       /\ AfterTorrentsLoaded => RetriesFailed(MAX_TRACKER_LOOKUPS_PER_REFRESH)]_vars

\* An identifier whose lookup failed, and that has no entry, is in the batch
\* of a later cycle.
C7_Witness ==
    \E h \in failed_ids :
        /\ h \notin DOMAIN tracker_map
        /\ \E i \in 1..Len(trackerWorkers) : IndexIn(trackerWorkers[i].todo, h) > 0

\* A step re-renders the list when _apply_client_side_filters goes past its
\* early return: the displayed identifiers change and update_from runs.
ReRenders ==
    /\ displayed_hashes' # displayed_hashes
    /\ AfterTorrentsLoaded \/ OnFilterChanged \/ DebounceFire \/ UpdateFilterCombo

\* C11: when a re-render happens, the identifiers selected after it are
\* exactly those selected before it that are still in the new displayed
\* list; nothing that was not selected before is selected after.
C11_SelectionRestoredByHash ==
    [][ReRenders =>
          /\ GetSelectedHashes(list_torrents', list_selected')
                = GetSelectedHashes(list_torrents, list_selected)
                     \cap {displayed_hashes'[i] : i \in 1..Len(displayed_hashes')}
          /\ list_selected' \subseteq 1..Len(list_items')]_vars

\* A list re-rendered from the two-torrent snapshot, narrowed by the search
\* text to torrent 2, whose only row is selected.
C11_Witness ==
    /\ displayed_hashes = <<2>>
    /\ list_selected = {1}
    /\ Len(all_torrents) = 2
    /\ debounce = 0
    /\ search_text # <<>>

\* C20: after a fetch cycle has been applied, the rendered rows and the
\* records behind them (what the Details dialog is given for the selection)
\* carry the field values of the latest snapshot, also when the displayed
\* identifiers are the same as in the previous cycle.  Stated for a running
\* session at rest whose rows show the filtered snapshot's identifiers.
C20_RowsCarryLatestSnapshot ==
    (Quiescent /\ SessionUp /\ RowsAreLastRender /\ RenderedHashes = ExpectedHashes)
        => LET shown == Candidate(all_torrents, filter_sel, search_text, tracker_map)
           IN  \A i \in 1..Len(list_items) :
                   /\ list_items[i] = Row(shown[i])
                   /\ list_torrents[i] = shown[i]

\* A client method other than logout (whose finally clause clears the flag
\* whatever the response was) has just had its request answered.
RequestAnswered ==
    /\ Login \/ GetTorrentsCall \/ BulkActionCall \/ DeleteTorrentsCall
    /\ outcome'.sent

\* C12: a response with the authorization-failure status (403) clears the
\* authenticated flag and raises the authentication error; every other
\* response whose status is not 2xx raises the API error carrying the status
\* code and the body, and leaves the flag as it was.
C12_NonSuccessResponseRaises ==
    [][RequestAnswered =>
          LET resp == outcome'.resp
          IN  /\ resp.status = 403
                    => ~auth' /\ outcome'.raised = AuthenticationFailed
              /\ resp.status # 403 /\ resp.status \notin 200..299
                    => /\ outcome'.raised = ApiRequestFailed(resp)
                       /\ auth' = auth]_vars

\* A bulk method is called with an empty collection of hashes.
CalledWithNoHashes ==
    \/ \E path \in BulkPaths, resp \in Responses : BulkAction(path, <<>>, resp)
    \/ \E resp \in Responses : DeleteTorrents(<<>>, resp)

\* C13: every bulk action (pause, resume, recheck, delete, increase priority,
\* decrease priority) called with an empty collection of hashes raises the
\* validation error and sends no HTTP request.
C13_EmptyHashesRejected ==
    [][CalledWithNoHashes =>
          /\ outcome'.raised = HashRequired
          /\ http_log' = http_log]_vars

Command == PerformOnSelection \/ DeleteSelected
Selected == GetSelectedHashes(list_torrents, list_selected)
BulkRequest == BulkWorkerSucceed \/ BulkWorkerFail
Sender == bulkWorkers[CHOOSE i \in 1..Len(bulkWorkers) :
                          bulkWorkers' = RemoveAt(bulkWorkers, i)]

\* C15 as stated: a delete, pause, resume or recheck command with an empty
\* selection starts no request and produces "Select a torrent first", and
\* no request of these commands is sent while the client is not
\* authenticated.
C15_EmptySelectionAndSessionGuard ==
    [][/\ (Command /\ Selected = {})
             => /\ bulkWorkers' = bulkWorkers
                /\ status' = Status("Select a torrent first")
       /\ BulkRequest => Sender.hashes # {} /\ ClientFlag(Sender)]_vars

\* C15, amended: the guards are those of the moment the command is handled.
\* Without an authenticated client the command starts no request and
\* produces "Connect to a qBittorrent server first"; with one and an empty
\* selection it starts no request and produces "Select a torrent first"; a
\* request is started only with an authenticated client and a selection,
\* and the request then sent names at least one torrent.
C15_GuardsWhenHandled ==
    [][/\ (Command /\ ~auth)
             => /\ bulkWorkers' = bulkWorkers
                /\ status' = Status("Connect to a qBittorrent server first")
       /\ (Command /\ auth /\ Selected = {})
             => /\ bulkWorkers' = bulkWorkers
                /\ status' = Status("Select a torrent first")
       /\ (Command /\ bulkWorkers' # bulkWorkers) => auth /\ Selected # {}
       /\ BulkRequest => Sender.hashes # {}]_vars

\* A command was refused for its empty selection while the session was up
\* and rows were on screen.
C15_Witness ==
    /\ status = Status("Select a torrent first")
    /\ auth
    /\ list_items # <<>>
    /\ list_selected = {}
    /\ bulkWorkers = <<>>

\* C16: the active profile exists, settings.connection is the connection of
\* the active profile, and what a load of the saved file finds as the
\* connection is the connection that was saved.
C16_MirrorIsActiveProfile ==
    /\ active_profile \in Names(settings.profiles)
    /\ settings.connection
          = settings.profiles[ProfileOf(settings.profiles, active_profile)].conn
    /\ file = Payload(CurrentSettings)
          => LoadSettings(file).connection = settings.connection

\* C19: when a login has succeeded, _apply_connection makes the logged-in
\* client the active one, leaves the timer running at max(3, refresh_seconds)
\* seconds if automatic refresh is enabled, and starts exactly one fetch in
\* the same step (no timer tick is needed for it).
C19_PollingEntered ==
    [][ApplyConnection =>
          /\ auth'
          /\ settings.auto_refresh
                => /\ timer_running'
                   /\ timer_interval' = 1000 * (IF settings.refresh_seconds < 3 THEN 3
                                                ELSE settings.refresh_seconds)
          /\ Len(fetchWorkers') = Len(fetchWorkers) + 1
          /\ events' = events]_vars

\* A connection was applied with a refresh interval of one second: the
\* timer runs at three seconds and the first fetch is in flight.
C19_Witness ==
    /\ settings.refresh_seconds = 1
    /\ auth
    /\ connection_label = "Connected"
    /\ timer_running /\ timer_interval = 3000
    /\ Len(fetchWorkers) = 1
    /\ status = Status("Refreshing torrents")
    /\ events = 0

\* C17: writing what was loaded is idempotent, save(load()) done twice
\* writes the document it writes when done once, and loading what was saved
\* gives back the saved profiles (names, order, connection fields) and the
\* saved active profile.
C17_PersistenceRoundTrips ==
    LET once == Payload(LoadSettings(file))
        twice == Payload(LoadSettings(once))
        back == LoadSettings(Payload(CurrentSettings))
    IN  /\ twice = once
        /\ back.profiles = settings.profiles
        /\ back.active_profile = active_profile

\* Two profiles whose second one is active have been saved.
C17_Witness ==
    /\ file = Payload(CurrentSettings)
    /\ settings.configured
    /\ Len(settings.profiles) = 2
    /\ settings.profiles[1].name = "Seedbox"
    /\ active_profile = "Default"

\* The shapes save_settings writes (a key may be missing; a profile list
\* that is no object counts as no profile list).
ConnShaped(v) == v.t = "object" /\ v.keys \subseteq FieldNames
WellShaped(data) ==
    /\ data["connection"] = Absent \/ ConnShaped(data["connection"])
    /\ data["refresh_seconds"].t \in {"absent", "int"}
    /\ data["auto_refresh"].t \in {"absent", "bool"}
    /\ data["default_filter"].t \in {"absent", "str"}
    /\ data["confirm_delete"].t \in {"absent", "bool"}
    /\ data["active_profile"].t \in {"absent", "str"}
    /\ data["profiles"].t = "profiles"
          => \A i \in 1..Len(data["profiles"].members) :
                ConnShaped(data["profiles"].members[i].value)

\* The members of the file's profile list a connection can be built from.
UsableMembers(data) ==
    IF data["profiles"].t # "profiles" THEN <<>>
    ELSE SelectSeq(data["profiles"].members,
                   LAMBDA m : m.value = JNull \/ ConnShaped(m.value))

\* The profile name a file asks for: the text of what it saved as the active
\* profile, and "Default" if it saved nothing, null, "" or 0.
WantedActive(saved) ==
    CASE saved.t = "str" /\ saved.s # "" -> saved.s
      [] saved.t = "int" /\ saved.n # 0 -> ToString(saved.n)
      [] OTHER -> "Default"

OnlyDefault(s) ==
    /\ Len(s.profiles) = 1
    /\ s.profiles[1].name = "Default"
    /\ s.active_profile = "Default"

GivesUp(f) ==
    \/ f.kind # "json"
    \/ ~IsDict(f.data)
    \/ f.data["refresh_seconds"].t \in {"null", "list", "object", "profiles"}
    \/ f.data["refresh_seconds"] = JStr("abc")
    \/ /\ UsableMembers(f.data) = <<>>
       /\ f.data["connection"] # Absent
       /\ ~ConnShaped(f.data["connection"])

C21_DisplayedMatchesRows == displayed_hashes = RenderedHashes

\* The lists the server returns for the status filter selected now.
AnswersForSelection ==
    {GetTorrents(ServerList(v), ApiFilter(filter_sel)) : v \in ServerVariants}

\* C22: once every fetch in flight has been applied, the cached snapshot is
\* the answer to a request made with the status filter selected now ("all"
\* when a tracker host is selected).  Stated for the application of the last
\* result in flight during a session: when the snapshot already held a
\* non-empty answer for the selected filter, the application that leaves no
\* fetch worker alive and no result waiting stores an answer for that filter
\* too.
C22_SnapshotMatchesSelectedFilter ==
    [][(/\ AfterTorrentsLoaded
        /\ auth
        /\ all_torrents # <<>> /\ all_torrents \in AnswersForSelection
        /\ fetchWorkers' = <<>> /\ PendingLoaded' = {})
          => all_torrents' \in AnswersForSelection']_vars

\* The connection of the active profile.
ActiveConnection ==
    settings.profiles[ProfileOf(settings.profiles, active_profile)].conn

\* C23: at most one login is in flight at a time, and the client that
\* _apply_connection installs belongs to the active profile: the connection
\* it stores in settings.connection is that of the active profile, so a login
\* started before a profile switch installs nothing after the switch.
C23_OneAttemptForActiveProfile ==
    [][/\ Len(loginWorkers') <= 1
       /\ ApplyConnection => settings'.connection = ActiveConnection']_vars

\* C24: the connection indicators agree with the session in every state:
\* whenever the client is not authenticated, the Connect menu item is
\* enabled, the Disconnect item is disabled and the connection label does
\* not read "Connected".
C24_IndicatorsAgreeWithSession ==
    ~auth => /\ connect_menu_enabled
             /\ ~disconnect_menu_enabled
             /\ connection_label # "Connected"

\* A step of a worker thread: a login, fetch or tracker-lookup worker gets
\* its answer.
WorkerStep ==
    \/ LoginSucceed \/ LoginFail
    \/ FetchSucceed \/ FetchFail
    \/ TrackerLookupOk \/ TrackerLookupFail

\* What the UI thread reads: the widgets, the caches, the connecting flag and
\* the client's session flag.
UiState ==
    <<auth, is_connecting, chromeVars, status, filterVars, search_text,
      cacheVars, listVars, timer_running>>

\* C25: worker threads report back only through callbacks posted to the UI
\* loop: a step of a worker changes none of the state the UI thread reads
\* (widgets, snapshot, tracker-host map, connecting flag, active client).
C25_WorkersOnlyPost == [][WorkerStep => UNCHANGED UiState]_vars

\* C26: under repeated fetch cycles every identifier that stays in the
\* snapshot and whose tracker lookup would succeed eventually has an entry in
\* the tracker-host map, also when 40 identifiers ahead of it in snapshot
\* order have lookups that fail on every cycle.
C26_SucceedingLookupEventuallyRecorded ==
    <>(\A h \in (1..LargeMax) \ FailingIds : h \in DOMAIN tracker_map)

\* The pending items are the last items enqueued.
PendingIsTail ==
    /\ Len(pending_items) <= Len(enqueued)
    /\ pending_items
          = SubSeq(enqueued, Len(enqueued) - Len(pending_items) + 1, Len(enqueued))

\* C27 as stated: every item enqueued for opening is handed to the add
\* operation exactly once, in enqueue order (the items handed followed by
\* the items pending are the items enqueued), only while the client is
\* authenticated, and an authentication success leaves no item pending.
C27_EveryItemHandedOnce ==
    [][/\ enqueued' = handed' \o pending_items'
       /\ handed' # handed => auth'
       /\ ApplyConnection => pending_items' = <<>>]_vars

\* C27 for the items the add operation takes: every enqueued magnet link and
\* every enqueued path of a file that exists is handed to the add operation
\* exactly once, in enqueue order, only while the client is authenticated;
\* an item whose file does not exist is dropped when the queue is drained;
\* the items not yet drained are the last ones enqueued, and an
\* authentication success leaves no item pending.
C27_AcceptedItemsHandedOnce ==
    [][/\ Accepted(enqueued') = handed' \o Accepted(pending_items')
       /\ PendingIsTail'
       /\ handed' # handed => auth'
       /\ ApplyConnection => pending_items' = <<>>]_vars

\* Items given on the command line, one of them a file that is gone, were
\* drained by the first connection and the open dialog then added more.
C27_Witness ==
    /\ auth
    /\ pending_items = <<>>
    /\ Refused(enqueued) # <<>>
    /\ Len(handed) >= 2
    /\ Len(enqueued) = MaxOpenItems

\* C28: at most one debounce timer is pending at any time; a change of the
\* search text recomputes nothing itself and leaves exactly one timer
\* pending, the one it started; when that timer fires the filters are
\* recomputed and no timer is left, so a burst of changes is followed by one
\* recomputation, after its last change.
C28_OneDebounceTimer ==
    [][/\ debounce' <= 1
       /\ OnSearchChanged => (debounce' = 1 /\ UNCHANGED <<displayed_hashes, list_items>>)
       /\ DebounceFire => debounce' = 0]_vars

\* Two changes of the search text in a row (away from the empty text and
\* back), the timer of the second still pending.
C28_Witness ==
    /\ events = 2
    /\ search_text = <<>>
    /\ debounce = 1

Entries(profiles) == {profiles[i] : i \in 1..Len(profiles)}

\* The dialog's names are pairwise different.
UniqueNames(profiles) ==
    \A i, j \in 1..Len(profiles) : profiles[i].name = profiles[j].name => i = j

\* C30: in the profile manager, after any sequence of add, remove, rename and
\* move-up/move-down operations the profile set is non-empty, profile names
\* are unique and the selected name is a key of the profile set; remove is
\* refused when one profile is left; a rename to a name that exists is
\* refused and leaves the set unchanged; a move changes only the order of the
\* profiles, not their names or connection values.
C30_ProfileSetStaysConsistent ==
    [][/\ dialog'.open =>
             /\ dialog'.profiles # <<>>
             /\ UniqueNames(dialog'.profiles)
             /\ dialog'.selected_name \in Names(dialog'.profiles)
       /\ (OnRemove /\ Len(dialog.profiles) = 1) =>
             dialog'.profiles = dialog.profiles
       /\ \A typed \in TypedNames :
             (/\ OnNameChange
              /\ dialog' = NameChange([dialog EXCEPT !.name = typed])
              /\ StripText(typed) \in Names(dialog.profiles)) =>
                dialog'.profiles = dialog.profiles
       /\ (MoveUp \/ MoveDown) =>
             /\ Len(dialog'.profiles) = Len(dialog.profiles)
             /\ Entries(dialog'.profiles) = Entries(dialog.profiles)
             /\ dialog'.selected_name = dialog.selected_name]_vars

\* Witness for C30: a profile was added, renamed and moved up, so that three
\* profiles stand in an order no settings file had, and every input of the
\* run was used.
C30_Witness ==
    /\ dialog.open
    /\ events = MaxDialogEvents
    /\ Len(dialog.profiles) = MaxProfiles
    /\ dialog.profiles[1].name = "Home"
    /\ dialog.profiles[2].name = "Profile"
    /\ dialog.selected_name = "Home"

====
